---- MODULE Spec2Model ----
(***************************************************************************)
(* The SharePoint data-access layer of the Asset Manager client            *)
(* (class SharePointService, src/screens/HomeScreen.tsx:1482-2385) as a    *)
(* state machine.  The service is a process-wide singleton; JavaScript runs *)
(* every task to its next await, so the model runs one data operation in   *)
(* micro-steps and lets the session operations (authenticate,              *)
(* setAccessToken) act only while the data operation is suspended on a     *)
(* network round trip or while none is active.                             *)
(***************************************************************************)
EXTENDS Integers, Sequences, FiniteSets, TLC

VARIABLES
  clientId,     \* config.clientId, fixed by the constructor
  tenantId,     \* config.tenantId, fixed by the constructor
  accessToken,  \* this.accessToken : string | null
  siteId,       \* this.siteId : string | null
  listIdCache,  \* this.listIdCache : Map<string, string>
  srvLists,     \* the lists the remote site holds (answer of sites/{id}/lists)
  screen,       \* the screens calling the service: the list screens or the user directory
  authPc,       \* position of the authenticate() activation
  authResult,   \* how the step just taken settled an authenticate() call, if it did
  op,           \* the data operation in progress, or the last one completed
  pc,           \* position of the data operation
  stack,        \* return and catch frames of the data operation
  arg,          \* argument of the call being entered
  ret,          \* value returned, or error thrown, by the last call
  loc,          \* local variables of the active functions
  net,          \* requests in flight: sent, response not yet delivered
  result,       \* how the data operation settled, pending before
  hist,         \* history of the current data operation (observation only)
  ui            \* React state of the component on top of the service, none in Spec

vars == <<clientId, tenantId, accessToken, siteId, listIdCache, srvLists, screen,
          authPc, authResult, op, pc, stack, arg, ret, loc, net, result, hist, ui>>

svcVars == <<accessToken, siteId, listIdCache>>
cfgVars == <<clientId, tenantId, srvLists, screen, ui>>

\* The service used on its own, no component mounted.
NoUi == [view |-> "none"]

----------------------------------------------------------------------------
(* Strings.  A string literal is a TLA+ string; Chars gives its spelling,  *)
(* on which the character-level operations (toLowerCase, includes, the     *)
(* regular expressions, parseInt, template strings) are computed.          *)

Chars ==
     ("" :> <<>>)
  @@ ("Assets" :> <<"A", "s", "s", "e", "t", "s">>)
  @@ ("assets" :> <<"a", "s", "s", "e", "t", "s">>)
  @@ ("ASSETS" :> <<"A", "S", "S", "E", "T", "S">>)
  @@ ("Access Cards" :> <<"A", "c", "c", "e", "s", "s", " ", "C", "a", "r", "d", "s">>)
  @@ ("access cards" :> <<"a", "c", "c", "e", "s", "s", " ", "c", "a", "r", "d", "s">>)
  @@ ("Employees" :> <<"E", "m", "p", "l", "o", "y", "e", "e", "s">>)
  @@ ("Missing" :> <<"M", "i", "s", "s", "i", "n", "g">>)
  @@ ("AccessCards" :> <<"A", "c", "c", "e", "s", "s", "C", "a", "r", "d", "s">>)
  @@ ("AssetList" :> <<"A", "s", "s", "e", "t", "L", "i", "s", "t">>)
  @@ ("EmployeeList" :> <<"E", "m", "p", "l", "o", "y", "e", "e", "L", "i", "s", "t">>)
  @@ ("Jane Doe" :> <<"J", "a", "n", "e", " ", "D", "o", "e">>)
  @@ ("John Roe" :> <<"J", "o", "h", "n", " ", "R", "o", "e">>)
  @@ ("HPH 12" :> <<"H", "P", "H", " ", "1", "2">>)
  @@ ("HPH12" :> <<"H", "P", "H", "1", "2">>)
  @@ ("Assigned" :> <<"A", "s", "s", "i", "g", "n", "e", "d">>)
  @@ ("Card A" :> <<"C", "a", "r", "d", " ", "A">>)
  @@ ("Laptop" :> <<"L", "a", "p", "t", "o", "p">>)
  @@ ("jane@x.io" :> <<"j", "a", "n", "e", "@", "x", ".", "i", "o">>)
  @@ ("Id" :> <<"I", "d">>)
  @@ ("Title" :> <<"T", "i", "t", "l", "e">>)
  @@ ("Employee" :> <<"E", "m", "p", "l", "o", "y", "e", "e">>)
  @@ ("EmployeeName" :> <<"E", "m", "p", "l", "o", "y", "e", "e", "N", "a", "m", "e">>)
  @@ ("EmployeeLookupId" :> <<"E", "m", "p", "l", "o", "y", "e", "e", "L", "o", "o", "k", "u", "p", "I", "d">>)
  @@ ("EmpID" :> <<"E", "m", "p", "I", "D">>)
  @@ ("EmpId" :> <<"E", "m", "p", "I", "d">>)
  @@ ("EmpID0" :> <<"E", "m", "p", "I", "D", "0">>)
  @@ ("field_1" :> <<"f", "i", "e", "l", "d", "_", "1">>)
  @@ ("AccessCardNo" :> <<"A", "c", "c", "e", "s", "s", "C", "a", "r", "d", "N", "o">>)
  @@ ("CardStatus" :> <<"C", "a", "r", "d", "S", "t", "a", "t", "u", "s">>)
  @@ ("FullName" :> <<"F", "u", "l", "l", "N", "a", "m", "e">>)
  @@ ("displayName" :> <<"d", "i", "s", "p", "l", "a", "y", "N", "a", "m", "e">>)
  @@ ("LookupValue" :> <<"L", "o", "o", "k", "u", "p", "V", "a", "l", "u", "e">>)
  @@ ("email" :> <<"e", "m", "a", "i", "l">>)
  @@ ("field_2" :> <<"f", "i", "e", "l", "d", "_", "2">>)
  @@ ("field_2LookupId" :> <<"f", "i", "e", "l", "d", "_", "2", "L", "o", "o", "k", "u", "p", "I", "d">>)
  @@ ("Assignee" :> <<"A", "s", "s", "i", "g", "n", "e", "e">>)
  @@ ("AssigneeName" :> <<"A", "s", "s", "i", "g", "n", "e", "e", "N", "a", "m", "e">>)
  @@ ("userPrincipalName" :> <<"u", "s", "e", "r", "P", "r", "i", "n", "c", "i", "p", "a", "l", "N", "a", "m", "e">>)
  @@ ("[ID: " :> <<"[", "I", "D", ":", " ">>)
  @@ ("]" :> <<"]">>)
  @@ ("1" :> <<"1">>)
  @@ ("2" :> <<"2">>)
  @@ ("3" :> <<"3">>)
  @@ ("4" :> <<"4">>)
  @@ ("7" :> <<"7">>)
  @@ ("9" :> <<"9">>)
  @@ ("x7" :> <<"x", "7">>)
  @@ ("42" :> <<"4", "2">>)
  @@ ("redirect" :> <<"r", "e", "d", "i", "r", "e", "c", "t">>)
  @@ ("redirect_uri" :> <<"r", "e", "d", "i", "r", "e", "c", "t", "_", "u", "r", "i">>)
  @@ ("invalid redirect_uri" :> <<"i", "n", "v", "a", "l", "i", "d", " ", "r", "e", "d", "i", "r", "e", "c", "t", "_", "u", "r", "i">>)
  @@ ("access_denied" :> <<"a", "c", "c", "e", "s", "s", "_", "d", "e", "n", "i", "e", "d">>)
  @@ ("Unknown error" :> <<"U", "n", "k", "n", "o", "w", "n", " ", "e", "r", "r", "o", "r">>)
  @@ ("empid" :> <<"e", "m", "p", "i", "d">>)
  @@ ("emp_id" :> <<"e", "m", "p", "_", "i", "d">>)
  @@ ("cardstatus" :> <<"c", "a", "r", "d", "s", "t", "a", "t", "u", "s">>)
  @@ ("contenttype" :> <<"c", "o", "n", "t", "e", "n", "t", "t", "y", "p", "e">>)
  @@ ("accesscardno" :> <<"a", "c", "c", "e", "s", "s", "c", "a", "r", "d", "n", "o">>)
  @@ ("employeeid" :> <<"e", "m", "p", "l", "o", "y", "e", "e", "i", "d">>)
  @@ ("lookupid" :> <<"l", "o", "o", "k", "u", "p", "i", "d">>)
  @@ ("id" :> <<"i", "d">>)
  @@ ("odata" :> <<"o", "d", "a", "t", "a">>)
  @@ ("author" :> <<"a", "u", "t", "h", "o", "r">>)
  @@ ("editor" :> <<"e", "d", "i", "t", "o", "r">>)
  @@ ("0a1b2c3d-0000-4000-8000-00000000000e" :> <<"0", "a", "1", "b", "2", "c", "3", "d", "-", "0", "0", "0", "0", "-", "4", "0", "0", "0", "-", "8", "0", "0", "0", "-", "0", "0", "0", "0", "0", "0", "0", "0", "0", "0", "0", "e">>)
  @@ ("mail" :> <<"m", "a", "i", "l">>)
  @@ ("Laptop-01" :> <<"L", "a", "p", "t", "o", "p", "-", "0", "1">>)
  @@ ("TypeError" :> <<"T", "y", "p", "e", "E", "r", "r", "o", "r">>)
  @@ ("Available" :> <<"A", "v", "a", "i", "l", "a", "b", "l", "e">>)
  @@ ("Item" :> <<"I", "t", "e", "m">>)
  @@ ("ContentType" :> <<"C", "o", "n", "t", "e", "n", "t", "T", "y", "p", "e">>)
  @@ ("Edit" :> <<"E", "d", "i", "t">>)
  @@ ("Attachments" :> <<"A", "t", "t", "a", "c", "h", "m", "e", "n", "t", "s">>)
  @@ ("none" :> <<"n", "o", "n", "e">>)
  @@ (", " :> <<",", " ">>)

LowerOf ==
  [A |-> "a", B |-> "b", C |-> "c", D |-> "d", E |-> "e", F |-> "f", G |-> "g", H |-> "h", I |-> "i",
   J |-> "j", K |-> "k", L |-> "l", M |-> "m", N |-> "n", O |-> "o", P |-> "p", Q |-> "q", R |-> "r",
   S |-> "s", T |-> "t", U |-> "u", V |-> "v", W |-> "w", X |-> "x", Y |-> "y", Z |-> "z"]

LowerChar(c) == IF c \in DOMAIN LowerOf THEN LowerOf[c] ELSE c

\* String.prototype.toLowerCase on a spelling
ToLowerCase(cs) == [i \in 1..Len(cs) |-> LowerChar(cs[i])]

IsDigit(c) == c \in {"0", "1", "2", "3", "4", "5", "6", "7", "8", "9"}
IsSpace(c) == c \in {" "}
IsAlpha(c) == LowerChar(c) \in {LowerOf[k] : k \in DOMAIN LowerOf}

\* String.prototype.includes
Includes(cs, sub) ==
  \E i \in 0..(Len(cs) - Len(sub)) : SubSeq(cs, i + 1, i + Len(sub)) = sub

\* /^HPH\s?\d+/ : the employee-id pattern
MatchesEmpIdPattern(cs) ==
  /\ Len(cs) >= 4
  /\ SubSeq(cs, 1, 3) = <<"H", "P", "H">>
  /\ \/ IsDigit(cs[4])
     \/ IsSpace(cs[4]) /\ Len(cs) >= 5 /\ IsDigit(cs[5])

DigitOf == [i \in 0..9 |-> <<"0", "1", "2", "3", "4", "5", "6", "7", "8", "9">>[i + 1]]
DigitVal(c) == CHOOSE i \in 0..9 : DigitOf[i] = c

\* String(n) for a non-negative integer
RECURSIVE NumToChars(_)
NumToChars(n) == IF n < 10 THEN <<DigitOf[n]>> ELSE NumToChars(n \div 10) \o <<DigitOf[n % 10]>>

NaN == -1  \* stands for NaN; the code keeps only values with !isNaN(v) && v > 0

\* parseInt(s, 10) on a spelling without sign: leading blanks, then digits
RECURSIVE DigitsValue(_, _)
DigitsValue(cs, acc) ==
  IF cs = <<>> \/ ~IsDigit(Head(cs)) THEN acc
  ELSE DigitsValue(Tail(cs), acc * 10 + DigitVal(Head(cs)))

RECURSIVE SkipBlanks(_)
SkipBlanks(cs) == IF cs # <<>> /\ IsSpace(Head(cs)) THEN SkipBlanks(Tail(cs)) ELSE cs

ParseInt(cs) ==
  LET t == SkipBlanks(cs) IN
  IF t = <<>> \/ ~IsDigit(Head(t)) THEN NaN ELSE DigitsValue(t, 0)

----------------------------------------------------------------------------
(* JavaScript values: tagged, so that values of different types compare.  *)
(* An object is the sequence of its <<key, value>> pairs in insertion     *)
(* order (Object.entries order).                                           *)

JUndef == [t |-> "undefined"]
JNull == [t |-> "null"]
JStr(cs) == [t |-> "string", s |-> cs]
JNum(n) == [t |-> "number", n |-> n]
JObj(kv) == [t |-> "object", kv |-> kv]
Lit(s) == JStr(Chars[s])

IsStr(v) == v.t = "string"
IsObj(v) == v.t = "object"

\* truthiness
Truthy(v) ==
  CASE v.t = "undefined" -> FALSE
    [] v.t = "null" -> FALSE
    [] v.t = "string" -> v.s # <<>>
    [] v.t = "number" -> v.n # 0 /\ v.n # NaN
    [] OTHER -> TRUE

\* a || b
Or(a, b) == IF Truthy(a) THEN a ELSE b

\* o[k] on a key-value sequence
Get(kv, k) ==
  IF \E i \in 1..Len(kv) : kv[i][1] = k
  THEN kv[CHOOSE i \in 1..Len(kv) : kv[i][1] = k][2]
  ELSE JUndef

\* o[k] = v : replaces in place, or appends a new key
Put(kv, k, v) ==
  IF \E i \in 1..Len(kv) : kv[i][1] = k
  THEN [i \in 1..Len(kv) |-> IF kv[i][1] = k THEN <<k, v>> ELSE kv[i]]
  ELSE Append(kv, <<k, v>>)

\* v.k where v may be any value (undefined when v is not an object)
Field(v, k) == IF IsObj(v) THEN Get(v.kv, k) ELSE JUndef

\* { ...a, ...b } on key-value sequences
RECURSIVE Spread(_, _)
Spread(a, b) == IF b = <<>> THEN a ELSE Spread(Put(a, Head(b)[1], Head(b)[2]), Tail(b))

Null == "<null>"  \* the null of a `string | null` service field
EmptyMap == [k \in {} |-> k]

----------------------------------------------------------------------------
(* The remote site.                                                        *)

ListEntry(id, displayName, name) == [id |-> id, displayName |-> displayName, name |-> name]

\* a site with the three lists of the application
ListingFull ==
  << ListEntry("L-emp", Lit("Employees"), Lit("EmployeeList")),
     ListEntry("L-card", Lit("Access Cards"), Lit("AccessCards")),
     ListEntry("L-asset", Lit("Assets"), Lit("AssetList")) >>

\* a site without an Employees list, one entry without displayName
ListingPartial ==
  << ListEntry("L-card2", JUndef, Lit("Access Cards")),
     ListEntry("L-asset2", Lit("ASSETS"), Lit("AssetList")) >>

Listings == {ListingFull, ListingPartial}

\* list names the callers pass
ListNames == {"Assets", "assets", "Access Cards", "Employees", "Missing"}

\* the applications observed: configuration, remote lists, calling screens
World(c, lists, scr) == [clientId |-> c[1], tenantId |-> c[2], srvLists |-> lists, screen |-> scr]

PlaceholderClientId == "YOUR_CLIENT_ID_HERE"
PlaceholderTenantId == "YOUR_TENANT_ID_HERE"

\* the configurations the service is constructed with
Configs ==
  { <<"client-1", "tenant-1">>, <<PlaceholderClientId, "tenant-1">>, <<"", "tenant-1">>,
    <<"client-1", PlaceholderTenantId>>, <<"client-1", "">> }

Worlds ==
  {World(c, ListingFull, "lists") : c \in Configs}
  \cup {World(<<"client-1", "tenant-1">>, ListingPartial, "lists"),
        World(<<"client-1", "tenant-1">>, ListingFull, "directory")}

Item(id, fields) == [id |-> Lit(id), fields |-> JObj(fields)]

\* items of the Access Cards list
CardExpanded == Item("1", << <<"Title", Lit("Card A")>>,
                             <<"Employee", JObj(<< <<"displayName", Lit("Jane Doe")>> >>)>> >>)
CardLookup == Item("2", << <<"Title", Lit("Card A")>>, <<"EmployeeLookupId", Lit("7")>> >>)
CardExpandedId == Item("3", << <<"Employee", JObj(<< <<"displayName", Lit("HPH 12")>> >>)>>,
                               <<"EmployeeLookupId", Lit("9")>> >>)
CardFree == Item("9", << <<"Title", Lit("Card A")>> >>)
CardNamed == Item("4", << <<"Employee", JObj(<< <<"displayName", Lit("Jane Doe")>> >>)>>,
                          <<"EmployeeLookupId", Lit("7")>> >>)

\* items of the Assets list
AssetExpanded == Item("1", << <<"Title", Lit("Laptop")>>, <<"field_2LookupId", Lit("7")>>,
                              <<"field_2", JObj(<< <<"displayName", Lit("Jane Doe")>> >>)>> >>)
AssetLookup == Item("2", << <<"Title", Lit("Laptop")>>, <<"field_2LookupId", Lit("7")>> >>)
AssetUser == Item("3", << <<"field_2LookupId", Lit("0a1b2c3d-0000-4000-8000-00000000000e")>> >>)

\* items of the Employees list
EmployeeJane == Item("7", << <<"Title", Lit("Jane Doe")>> >>)
\* an item whose field container holds a key Id of its own
EmployeeOwnId == Item("4", << <<"Title", Lit("Jane Doe")>>, <<"Id", Lit("7")>> >>)
EmployeeIdOnly == Item("7", << <<"Title", Lit("HPH 12")>>, <<"EmpID", Lit("HPH 12")>> >>)

\* an Access Cards item that names its employee
CardOfJohn == Item("7", << <<"AccessCardNo", Lit("42")>>, <<"Employee", Lit("John Roe")>> >>)

\* The item listings the server may hold for a list, each a sequence of
\* pages; a page but the last carries @odata.nextLink.
CardListings ==
  { << <<>> >>,
    << <<CardExpanded, CardLookup>> >>,
    << <<CardLookup, CardExpanded>> >>,
    << <<CardExpanded>>, <<CardLookup>> >>,
    << <<CardExpandedId, CardLookup>> >>,
    << <<CardFree, CardNamed>> >> }

AssetListings ==
  { << <<>> >>,
    << <<AssetExpanded, AssetLookup>> >>,
    << <<AssetLookup, AssetUser>> >>,
    << <<AssetUser>>, <<AssetExpanded>> >> }

EmployeeListings == { << <<>> >>, << <<EmployeeJane>> >>, << <<EmployeeOwnId, EmployeeJane>> >> }

ItemListings(listId) ==
  CASE listId \in {"L-card", "L-card2"} -> CardListings
    [] listId \in {"L-asset", "L-asset2"} -> AssetListings
    [] OTHER -> EmployeeListings

\* the answer to the item listing: the first page; `all` is what the server
\* holds, which the client does not see
ItemsBody(pages) == [value |-> pages[1], nextLink |-> Len(pages) > 1, all |-> pages]

\* the answers to a single item request (items/{id}?$expand=fields)
ItemBodies(listId) ==
  IF listId \in {"L-card", "L-card2"} THEN {CardOfJohn, EmployeeIdOnly} ELSE {EmployeeJane, EmployeeIdOnly}

\* the answers to users/{id}
UserBodies ==
  { [displayName |-> Lit("John Roe"), userPrincipalName |-> Lit("jane@x.io"), mail |-> JNull],
    [displayName |-> JNull, userPrincipalName |-> JNull, mail |-> JNull] }

\* the employees a caller passes as cachedEmployees (absent: <<>>)
CachedEmployees ==
  { <<>>,
    << << <<"Id", Lit("7")>>, <<"Title", Lit("Jane Doe")>> >> >> }


GlobalAdministrator == "62e90394-69f5-4237-9190-012177145e10"

\* line 2205-2210
AdminRoleTemplateIds ==
  { GlobalAdministrator, "f28a1f50-f6e7-4571-818b-6a12f2af6b6c",
    "b0f54661-2d74-4c50-afa3-1ec803f12efe", "29232cdf-9323-42fd-ade2-1d097af3e4de" }

DirectoryObject(type, roleTemplateId, displayName) ==
  [type |-> type, id |-> "role-1", roleTemplateId |-> roleTemplateId, displayName |-> displayName]

\* the answers to me/memberOf and to directoryRoles
MemberOfBodies ==
  { [value |-> <<>>],
    [value |-> << DirectoryObject("#microsoft.graph.group", "", "Staff"),
                  DirectoryObject("#microsoft.graph.directoryRole", GlobalAdministrator, "Global Administrator") >>],
    [value |-> << DirectoryObject("#microsoft.graph.directoryRole", "other-role", "Reports Reader") >>] }

\* the users of page n of the organization's user listing, as getAllUsers
\* maps them (lines 2266-2274): one user stands for the page
UsersOfPage(n) == << [id |-> n, displayName |-> "", userPrincipalName |-> "", mail |-> ""] >>

\* the answers to a page of the user listing: another page follows, or none
UsersBodies(n) == { [value |-> UsersOfPage(n), nextLink |-> more] : more \in BOOLEAN }

\* the answers to directoryRoles/{id}/members
MembersBodies ==
  { [value |-> << [type |-> "#microsoft.graph.user", id |-> "u-1"],
                  [type |-> "#microsoft.graph.servicePrincipal", id |-> "sp-1"] >>] }


----------------------------------------------------------------------------
(* The data operation: a call stack run in micro-steps.                    *)

RetFrame(l) == [k |-> "ret", l |-> l]
CatchFrame(l) == [k |-> "catch", l |-> l]

NoOp == [name |-> "none", listName |-> "", itemId |-> "", fields |-> <<>>, cached |-> <<>>]

\* a promise of Promise.all that has not settled, and one fulfilled with v
Unsettled == [settled |-> FALSE]

Settled(v) == [settled |-> TRUE, value |-> v]

LocInit ==
  [ glName |-> "",      \* getListId: listName
    listId |-> "",      \* the operation's listId
    siteId |-> "",      \* the operation's siteId
    records |-> <<>>,   \* getRecords: records
    names |-> EmptyMap, \* resolvers: employeeNameCache / userNameCache
    todo |-> <<>>,      \* resolvers: the ids the loop has still to visit
    employeesListId |-> "", \* resolveEmployeeNames: employeesListId
    item |-> "none",    \* resolveEmployeeNames: employeeItem
    pageCount |-> 0,    \* getAllUsers: pageCount
    user |-> Unsettled,   \* getCurrentUserWithAdminStatus: the settled getCurrentUser()
    admin |-> Unsettled ]  \* getCurrentUserWithAdminStatus: the settled isCurrentUserAdmin()

\* no getListId call has completed
NoCall == [name |-> "", id |-> "", entry |-> "none", enums |-> 0, known |-> ""]

HistInit ==
  [ reqs |-> <<>>,        \* requests the operation has sent, in order
    glEntry |-> "none",   \* current getListId call: was the name resolved before ("hit" / "miss")
    glEnums |-> 0,        \* list enumerations the current getListId call has sent
    glDone |-> NoCall,    \* last completed getListId call
    resolved |-> EmptyMap,\* names resolved by completed getListId calls since the last authentication
    again |-> FALSE,      \* the operation repeats the name the one before it found no list for
    fresh |-> FALSE,      \* authenticate() succeeded with no operation in flight, no id resolved since
    resolvers |-> {},     \* reference resolvers the operation has invoked
    pages |-> <<>>,       \* the pages of the item listing the server holds
    ids |-> <<>>,         \* the ids the reference resolver collected from the records
    names |-> EmptyMap,   \* the names the reference resolver populated the records from
    lookups |-> <<>>,     \* the item and user requests of the reference resolver, in order
    thrown |-> <<>>,      \* the errors makeGraphRequest has thrown, in order
    refused |-> <<>>,     \* the responses with a non-success status, in order
    more |-> FALSE,       \* getAllUsers: the last page that arrived carried @odata.nextLink
    relogin |-> "no",     \* "out": setAccessToken('') found ids memoized; "in": the token was set again,
                          \* and the operation, if any, is the first since
    overtaken |-> FALSE ] \* an authentication succeeded since the last request left

\* the result of an operation that has not settled
Pending == [ok |-> FALSE, err |-> "pending"]

\* call `target` with argument a, continue at retLabel
Call(target, a, retLabel) ==
  /\ pc' = target
  /\ arg' = a
  /\ stack' = <<RetFrame(retLabel)>> \o stack

\* return v to the caller
Return(v) ==
  /\ pc' = Head(stack).l
  /\ stack' = Tail(stack)
  /\ ret' = v

CatchIndex(st) ==
  IF \E i \in 1..Len(st) : st[i].k = "catch"
  THEN CHOOSE i \in 1..Len(st) : st[i].k = "catch" /\ \A j \in 1..(i - 1) : st[j].k # "catch"
  ELSE 0

\* the operation settles: resolves with v or rejects with e
Settle(r) ==
  /\ pc' = "idle"
  /\ stack' = <<>>
  /\ result' = r
  /\ loc' = LocInit
  /\ arg' = "none"
  /\ ret' = "none"

Finish(v) == Settle([ok |-> TRUE, val |-> v])

\* throw e: control passes to the innermost catch, or the operation rejects
Throw(e) ==
  LET i == CatchIndex(stack) IN
  IF i = 0
  THEN Settle([ok |-> FALSE, err |-> e])
  ELSE /\ pc' = stack[i].l
       /\ stack' = SubSeq(stack, i + 1, Len(stack))
       /\ ret' = e
       /\ UNCHANGED <<result, loc, arg>>

\* No authenticate() call settled in the step just taken.
NoAuthEvent == [ok |-> FALSE, msg |-> "none"]

\* What is remembered of a settled operation is dropped by the next step
\* of the session: op, result and hist describe the operation in progress
\* or the one the step just taken settled.
ForgetSettled ==
  IF pc = "idle"
  THEN /\ op' = NoOp
       /\ result' = Pending
       /\ hist' = [HistInit EXCEPT !.resolved = hist.resolved, !.fresh = hist.fresh,
                                   !.relogin = IF op = NoOp THEN hist.relogin ELSE "no"]
  ELSE UNCHANGED <<op, result, hist>>

----------------------------------------------------------------------------
(* authenticate(), setAccessToken()                                        *)

\* the configuration check without the comparison with the placeholders
ConfigError_NoPlaceholderCheck(cid, tid) ==
  IF cid = "" THEN "Client ID not configured"
  ELSE IF tid = "" THEN "Tenant ID not configured"
  ELSE "none"

\* lines 1502-1512: the error thrown for an unusable configuration, or "none"
ConfigError(cid, tid) ==
  IF cid = "" \/ cid = PlaceholderClientId THEN "Client ID not configured"
  ELSE IF tid = "" \/ tid = PlaceholderTenantId THEN "Tenant ID not configured"
  ELSE "none"

\* a catch block that rethrows whatever it caught
Rethrown_AsIs(msg) == msg

\* catch block, lines 1624-1630: an error with a message is rethrown as it is
Rethrown(msg) == IF msg # "" THEN msg ELSE "Authentication failed: (no message)"

AuthFailure(msg) == [ok |-> FALSE, msg |-> Rethrown(msg)]

\* a session that keeps the listIdCache over an authentication
ListIdCacheAfterAuth_Kept(cache) == cache

\* what the session holds after a successful exchange, lines 1594-1596
ListIdCacheAfterAuth(cache) == EmptyMap

\* a session that keeps the siteId over an authentication
SiteIdAfterAuth_Kept(sid) == sid

SiteIdAfterAuth(sid) == Null

\* A session operation runs only while the data operation is suspended.
Suspended == pc \in {"idle", "wait", "wait_all"}

\* outcomes of request.promptAsync(discovery)
PromptOutcomes ==
  { [type |-> "success", code |-> "code-1", error |-> ""],
    [type |-> "success", code |-> "", error |-> ""],
    [type |-> "error", code |-> "", error |-> "invalid redirect_uri"],
    [type |-> "error", code |-> "", error |-> "access_denied"],
    [type |-> "error", code |-> "", error |-> ""],
    [type |-> "cancel", code |-> "", error |-> ""],
    [type |-> "dismiss", code |-> "", error |-> ""],
    [type |-> "rejected", code |-> "", error |-> ""] }

\* lines 1599-1623: the message thrown for a non-success prompt result
PromptFailureMessage(r) ==
  CASE r.type = "success" -> "Authorization code not received"
    [] r.type = "error" ->
         LET errorMessage == IF r.error # "" THEN r.error ELSE "Unknown error" IN
         IF Includes(Chars[errorMessage], Chars["redirect_uri"])
            \/ Includes(Chars[errorMessage], Chars["redirect"])
         THEN "Redirect URI mismatch!"
         ELSE "Authentication error"
    [] r.type = "cancel" -> "Authentication cancelled by user"
    [] r.type = "rejected" -> ""
    [] OTHER -> "Authentication failed: type"

\* outcomes of AuthSession.exchangeCodeAsync
ExchangeOutcomes == {"tokB", "", "rejected"}

\* authenticate(), lines 1500-1563: configuration check, then the prompt
AuthStart ==
  /\ Suspended
  /\ authPc = "idle"
  /\ LET e == ConfigError(clientId, tenantId) IN
     IF e # "none"
     THEN /\ authResult' = AuthFailure(e)
          /\ authPc' = "idle"
     ELSE /\ authResult' = NoAuthEvent
          /\ authPc' = "prompt"
  /\ ForgetSettled
  /\ UNCHANGED <<svcVars, cfgVars, pc, stack, arg, ret, loc, net>>

\* lines 1563-1588 and 1599-1630: the prompt's result arrives
AuthPrompted ==
  /\ Suspended
  /\ authPc = "prompt"
  /\ \E r \in PromptOutcomes :
       IF r.type = "success" /\ r.code # ""
       THEN /\ authPc' = "exchange"
            /\ authResult' = NoAuthEvent
       ELSE /\ authPc' = "idle"
            /\ authResult' = AuthFailure(PromptFailureMessage(r))
  /\ ForgetSettled
  /\ UNCHANGED <<svcVars, cfgVars, pc, stack, arg, ret, loc, net>>

\* lines 1585-1598: the token exchange's result arrives
AuthExchanged ==
  /\ Suspended
  /\ authPc = "exchange"
  /\ authPc' = "idle"
  /\ \E t \in ExchangeOutcomes :
       IF t \notin {"", "rejected"}
       THEN /\ accessToken' = t
            /\ siteId' = SiteIdAfterAuth(siteId)
            /\ listIdCache' = ListIdCacheAfterAuth(listIdCache)
            /\ authResult' = [ok |-> TRUE, msg |-> t]
            /\ op' = IF pc = "idle" THEN NoOp ELSE op
            /\ result' = IF pc = "idle" THEN Pending ELSE result
            /\ hist' = IF pc = "idle"
                       THEN [HistInit EXCEPT !.fresh = TRUE]
                       ELSE [hist EXCEPT !.resolved = EmptyMap, !.fresh = FALSE, !.relogin = "no", !.overtaken = pc = "wait"]
       ELSE /\ authResult' = AuthFailure(IF t = "" THEN "Access token not received from token exchange" ELSE "")
            /\ ForgetSettled
            /\ UNCHANGED svcVars
  /\ UNCHANGED <<cfgVars, pc, stack, arg, ret, loc, net>>

\* tokens a caller passes to setAccessToken: '' is the logout
TokenInputs == {"", "tokA"}

\* what hist.relogin becomes when setAccessToken(t) is called with no
\* operation in flight: "out" after a logout that found ids memoized, "in"
\* after the token has been set again
Relogin(t) ==
  IF t = ""
  THEN IF siteId \notin {Null, ""} /\ listIdCache # EmptyMap THEN "out" ELSE "no"
  ELSE IF hist.relogin \in {"out", "in"} /\ op = NoOp THEN "in" ELSE "no"

\* a setAccessToken that also forgets the ids
SetAccessToken_ForgetsIds(t) ==
  /\ Suspended
  /\ accessToken' = t
  /\ siteId' = Null
  /\ listIdCache' = EmptyMap
  /\ authResult' = NoAuthEvent
  /\ IF pc = "idle"
     THEN /\ op' = NoOp
          /\ result' = Pending
          /\ hist' = [HistInit EXCEPT !.resolved = hist.resolved, !.fresh = hist.fresh,
                                      !.relogin = Relogin(t)]
     ELSE /\ hist' = [hist EXCEPT !.relogin = "no"]
          /\ UNCHANGED <<op, result>>
  /\ UNCHANGED <<cfgVars, authPc, pc, stack, arg, ret, loc, net>>

\* setAccessToken(token), lines 1633-1635
SetAccessToken(t) ==
  /\ Suspended
  /\ accessToken' = t
  /\ authResult' = NoAuthEvent
  /\ IF pc = "idle"
     THEN /\ op' = NoOp
          /\ result' = Pending
          /\ hist' = [HistInit EXCEPT !.resolved = hist.resolved, !.fresh = hist.fresh,
                                      !.relogin = Relogin(t)]
     ELSE /\ hist' = [hist EXCEPT !.relogin = "no"]
          /\ UNCHANGED <<op, result>>
  /\ UNCHANGED <<siteId, listIdCache, cfgVars, authPc, pc, stack, arg, ret, loc, net>>

----------------------------------------------------------------------------
(* makeGraphRequest, getSiteId, getListId                                  *)

\* an error that does not say what is wrong
NotAuthenticated_Unspecific == [kind |-> "Error", msg |-> "Request failed"]

\* line 1649
NotAuthenticated == [kind |-> "Error", msg |-> "Not authenticated. Call authenticate() first."]

\* a token check that lets the empty token pass
IsAuthenticated_NullOnly(tok) == tok # Null

\* line 1648: !this.accessToken
IsAuthenticated(tok) == tok # Null /\ tok # ""

\* lines 1652-1661: the request sent, bearing the stored token
Request(a, tok) == [kind |-> a.kind, method |-> a.method, path |-> a.path, body |-> a.body, auth |-> tok]

\* the arguments of a makeGraphRequest call: endpoint and options
Req(kind, method, path, body) == [kind |-> kind, method |-> method, path |-> path, body |-> body]

\* makeGraphRequest, lines 1644-1661: token check, then fetch
MgrSend ==
  /\ pc = "mgr"
  /\ IF ~IsAuthenticated(accessToken)
     THEN /\ Throw(NotAuthenticated)
          /\ hist' = [hist EXCEPT !.thrown = Append(@, NotAuthenticated)]
          /\ UNCHANGED net
     ELSE /\ net' = {Request(arg, accessToken)}
          /\ hist' = [hist EXCEPT !.reqs = Append(@, arg.kind),
                                  !.glEnums = IF arg.kind = "lists" /\ hist.glEntry # "none" THEN @ + 1 ELSE @,
                                  !.lookups = IF arg.kind \in {"item", "user"} THEN Append(@, arg.path) ELSE @,
                                  !.overtaken = FALSE]
          /\ pc' = "wait"
          /\ UNCHANGED <<stack, arg, ret, loc, result>>
  /\ UNCHANGED <<svcVars, cfgVars, authPc, authResult, op>>

\* the responses with a non-success status the remote API may answer with:
\* response.status and the text of the body
Refusals ==
  { [status |-> 404, text |-> "itemNotFound"],
    [status |-> 403, text |-> "accessDenied"] }

\* the refusals a request may meet: the item it names may not exist; access
\* may be denied to the requests that resolve ids and to the mutations
RefusalsOf(r) ==
  IF r.kind \in {"site", "lists", "post", "patch", "delete"}
  THEN Refusals
  ELSE {response \in Refusals : response.status = 404}

\* an error that names the status alone
HttpError_StatusOnly(response) ==
  [kind |-> "Error", msg |-> "Microsoft Graph API error", status |-> response.status, text |-> ""]

\* lines 1663-1666: `Microsoft Graph API error: ${response.status} - ${errorText}`
HttpError(response) ==
  [kind |-> "Error", msg |-> "Microsoft Graph API error", status |-> response.status, text |-> response.text]

\* the answer to a request for something that does not exist
GraphError == HttpError([status |-> 404, text |-> "itemNotFound"])

\* response.json() of a response without a body
JsonError == [kind |-> "SyntaxError", msg |-> "JSON Parse error"]

\* the JSON bodies the remote API may answer a request with
Bodies(r) ==
  CASE r.kind = "site" -> {[id |-> "site-1"], [id |-> ""]}
    [] r.kind = "lists" -> {[value |-> srvLists]}
    [] r.kind = "list" -> {[id |-> r.path[4]]}
    [] r.kind = "post" -> {[id |-> "101", fields |-> r.body.fields], [id |-> "101", fields |-> JUndef]}
    [] r.kind = "patch" -> {r.body}
    [] r.kind = "delete" -> {[deleted |-> TRUE]}
    [] r.kind = "items" -> {ItemsBody(l) : l \in ItemListings(r.path[4])}
    [] r.kind = "item" -> ItemBodies(r.path[4])
    [] r.kind = "user" -> UserBodies
    [] r.kind = "me" -> {[id |-> "u-1", displayName |-> "Jane Doe", userPrincipalName |-> "jane@x.io", mail |-> ""]}
    [] r.kind = "memberOf" -> MemberOfBodies
    [] r.kind = "directoryRoles" -> MemberOfBodies
    [] r.kind = "members" -> MembersBodies
    [] r.kind = "users" -> UsersBodies(r.path[2])
    [] OTHER -> {}

\* makeGraphRequest, lines 1663-1668: the response arrives
MgrResponse ==
  /\ pc = "wait"
  /\ \E r \in net :
       /\ net' = {}
       /\ \/ \E b \in Bodies(r) : Return(b) /\ UNCHANGED <<loc, result, arg, hist>>
          \/ \E response \in RefusalsOf(r) :
               /\ Throw(HttpError(response))
               /\ hist' = [hist EXCEPT !.thrown = Append(@, HttpError(response)),
                                       !.refused = Append(@, response)]
          \/ /\ r.kind = "delete"
             /\ Throw(JsonError)
             /\ hist' = [hist EXCEPT !.thrown = Append(@, JsonError)]
  /\ authResult' = NoAuthEvent
  /\ UNCHANGED <<svcVars, cfgVars, authPc, op>>

\* line 1675: if (this.siteId)
SiteIdKnown(sid) == sid # Null /\ sid # ""

\* getSiteId, lines 1674-1689
GetSiteId ==
  /\ pc = "gs"
  /\ IF SiteIdKnown(siteId)
     THEN Return(siteId) /\ UNCHANGED arg
     ELSE Call("mgr", Req("site", "GET", <<"sites", "encodedSitePath">>, "none"), "gs_data") /\ UNCHANGED ret
  /\ hist' = [hist EXCEPT !.fresh = FALSE]
  /\ UNCHANGED <<svcVars, cfgVars, authPc, authResult, op, loc, net, result>>

\* getSiteId, lines 1691-1696
GetSiteIdData ==
  /\ pc = "gs_data"
  /\ IF ret.id = ""
     THEN /\ Throw([kind |-> "Error", msg |-> "Site ID not found in response"])
          /\ UNCHANGED siteId
     ELSE /\ siteId' = ret.id
          /\ Return(ret.id)
          /\ UNCHANGED <<loc, result, arg>>
  /\ UNCHANGED <<accessToken, listIdCache, cfgVars, authPc, authResult, op, net, hist>>

\* a lookup that never finds the name
CacheHas_Never(cache, listName) == FALSE

\* line 1703: this.listIdCache.has(listName)
CacheHas(cache, listName) == listName \in DOMAIN cache

\* the predicate without toLowerCase
NameMatches_CaseSensitive(l, listName) ==
  \/ IsStr(l.displayName) /\ l.displayName.s = Chars[listName]
  \/ IsStr(l.name) /\ l.name.s = Chars[listName]

\* lines 1711-1714: the predicate of lists.find
NameMatches(l, listName) ==
  \/ IsStr(l.displayName) /\ ToLowerCase(l.displayName.s) = ToLowerCase(Chars[listName])
  \/ IsStr(l.name) /\ ToLowerCase(l.name.s) = ToLowerCase(Chars[listName])

\* lists.find(...): the index of the first matching list, 0 when there is none
FindList(lists, listName) ==
  IF \E i \in 1..Len(lists) : NameMatches(lists[i], listName)
  THEN CHOOSE i \in 1..Len(lists) :
         /\ NameMatches(lists[i], listName)
         /\ \A j \in 1..(i - 1) : ~NameMatches(lists[j], listName)
  ELSE 0

\* Array.prototype.join on spellings
RECURSIVE Join(_, _)
Join(parts, sep) ==
  IF parts = <<>> THEN <<>>
  ELSE IF Len(parts) = 1 THEN parts[1]
  ELSE parts[1] \o sep \o Join(Tail(parts), sep)

\* String(v) for the values of the model
ToStringChars(v) ==
  CASE v.t = "string" -> v.s
    [] v.t = "number" -> NumToChars(v.n)
    [] v.t = "undefined" -> <<"u", "n", "d", "e", "f", "i", "n", "e", "d">>
    [] v.t = "null" -> <<"n", "u", "l", "l">>
    [] OTHER -> <<"[", "o", "b", "j", "e", "c", "t", " ", "O", "b", "j", "e", "c", "t", "]">>

\* the list of internal names in place of display names
AvailableLists_NamesOnly(lists) ==
  LET s == Join([i \in 1..Len(lists) |-> ToStringChars(lists[i].name)], Chars[", "]) IN
  IF s = <<>> THEN Chars["none"] ELSE s

\* line 1717: lists.map(l => l.displayName || l.name).join(', '), and `|| 'none'` of line 1720
AvailableLists(lists) ==
  LET s == Join([i \in 1..Len(lists) |-> ToStringChars(Or(lists[i].displayName, lists[i].name))], Chars[", "]) IN
  IF s = <<>> THEN Chars["none"] ELSE s

ListNotFound(listName, lists) ==
  [kind |-> "Error", msg |-> "List not found", listName |-> listName, available |-> AvailableLists(lists)]

\* the id an earlier getListId call of this session resolved the name to
Known(name) == IF name \in DOMAIN hist.resolved THEN hist.resolved[name] ELSE ""

\* a getListId call completes with id: the observation kept of it
GlDone(name, id) ==
  [hist EXCEPT !.glDone = [name |-> name, id |-> id, entry |-> hist.glEntry, enums |-> hist.glEnums,
                           known |-> Known(name)],
               !.resolved = (name :> id) @@ @,
               !.glEntry = "none"]

\* a getListId call finds no list: the observation kept of it
GlMissed(name) ==
  [hist EXCEPT !.glDone = [name |-> name, id |-> "",
                           entry |-> IF hist.again /\ name = op.listName THEN "not found again" ELSE "not found",
                           enums |-> hist.glEnums, known |-> ""],
               !.glEntry = "none"]

\* getListId, lines 1702-1707
GetListId ==
  /\ pc = "gl"
  /\ IF CacheHas(listIdCache, arg)
     THEN /\ Return(listIdCache[arg])
          /\ hist' = [hist EXCEPT !.glDone = [name |-> arg, id |-> listIdCache[arg],
                                               entry |-> IF arg \in DOMAIN hist.resolved THEN "hit" ELSE "miss",
                                               enums |-> 0, known |-> Known(arg)],
                                  !.resolved = (arg :> listIdCache[arg]) @@ @,
                                  !.glEntry = "none",
                                  !.fresh = FALSE]
          /\ UNCHANGED <<loc, arg>>
     ELSE /\ loc' = [loc EXCEPT !.glName = arg]
          /\ hist' = [hist EXCEPT !.glEntry = IF arg \in DOMAIN hist.resolved THEN "hit" ELSE "miss",
                                  !.glEnums = 0,
                                  !.fresh = FALSE]
          /\ Call("gs", "none", "gl_site")
          /\ UNCHANGED ret
  /\ UNCHANGED <<svcVars, cfgVars, authPc, authResult, op, net, result>>

\* getListId, line 1708
GetListIdSite ==
  /\ pc = "gl_site"
  /\ Call("mgr", Req("lists", "GET", <<"sites", ret, "lists">>, "none"), "gl_lists")
  /\ UNCHANGED <<svcVars, cfgVars, authPc, authResult, op, ret, loc, net, result, hist>>

\* getListId, lines 1709-1725
GetListIdLists ==
  /\ pc = "gl_lists"
  /\ LET lists == ret.value
         i == FindList(lists, loc.glName) IN
     IF i = 0
     THEN /\ Throw(ListNotFound(loc.glName, lists))
          /\ hist' = GlMissed(loc.glName)
          /\ UNCHANGED listIdCache
     ELSE /\ listIdCache' = (loc.glName :> lists[i].id) @@ listIdCache
          /\ hist' = GlDone(loc.glName, lists[i].id)
          /\ Return(lists[i].id)
          /\ UNCHANGED <<loc, result, arg>>
  /\ UNCHANGED <<accessToken, siteId, cfgVars, authPc, authResult, op, net>>

----------------------------------------------------------------------------
(* extractEmployeeName, lines 1749-1800                                     *)

\* String.prototype.trim() leaves nothing
IsBlank(cs) == \A i \in 1..Len(cs) : IsSpace(cs[i])

\* /^\d+$/
AllDigits(cs) == cs # <<>> /\ \A i \in 1..Len(cs) : IsDigit(cs[i])

\* /^\d{4}-\d{2}-\d{2}/
LooksLikeDate(cs) ==
  /\ Len(cs) >= 10
  /\ \A i \in {1, 2, 3, 4, 6, 7, 9, 10} : IsDigit(cs[i])
  /\ cs[5] = "-" /\ cs[8] = "-"

\* /^[A-Za-z\s]+$/
AllLettersOrBlanks(cs) == cs # <<>> /\ \A i \in 1..Len(cs) : IsAlpha(cs[i]) \/ IsSpace(cs[i])

\* /^[A-Za-z\s.]+$/
AllLettersBlanksOrDots(cs) ==
  cs # <<>> /\ \A i \in 1..Len(cs) : IsAlpha(cs[i]) \/ IsSpace(cs[i]) \/ cs[i] = "."

\* line 1754
SkipValues == {Chars[s] : s \in {"Assigned", "Available", "Item", "ContentType", "Edit", "Attachments"}}

\* lines 1755-1756
SkipFieldNames ==
  {Chars[s] : s \in {"cardstatus", "contenttype", "accesscardno", "assets", "empid",
                     "employeeid", "lookupid", "id", "odata", "author", "editor"}}

\* lines 1793-1794: the value looks like a person's name
LooksLikeName(cs) ==
  \/ AllLettersOrBlanks(cs) /\ Len(cs) > 5
  \/ Includes(cs, <<" ">>) /\ Len(cs) > 8 /\ AllLettersBlanksOrDots(cs)

\* lines 1779-1796: the loop's test of one entry of `fields`
IsNameEntry(fieldName, fieldValue, empIdValue) ==
  /\ IsStr(fieldValue)
  /\ ~IsBlank(fieldValue.s)
  /\ ~MatchesEmpIdPattern(fieldValue.s)
  /\ fieldValue # empIdValue
  /\ LET fieldNameLower == ToLowerCase(Chars[fieldName]) IN
     /\ ~Includes(fieldNameLower, Chars["empid"])
     /\ ~Includes(fieldNameLower, Chars["emp_id"])
     /\ \A skip \in SkipFieldNames : ~Includes(fieldNameLower, skip)
  /\ fieldValue.s \notin SkipValues
  /\ ~AllDigits(fieldValue.s)
  /\ Len(fieldValue.s) >= 3
  /\ ~LooksLikeDate(fieldValue.s)
  /\ LooksLikeName(fieldValue.s)

\* extractEmployeeName(employeeItem): the name, or null
ExtractEmployeeName(employeeItem) ==
  LET fields == IF IsObj(employeeItem.fields) THEN employeeItem.fields.kv ELSE <<>>
      empIdValue == Or(Or(Or(Get(fields, "EmpID"), Get(fields, "EmpId")), Get(fields, "EmpID0")),
                       Get(fields, "field_1"))
      title == Get(fields, "Title")
      titleValue == ToStringChars(title)
      employee == Get(fields, "Employee")
      named == {i \in 1..Len(fields) : IsNameEntry(fields[i][1], fields[i][2], empIdValue)}
  IN
  IF /\ Truthy(title)
     /\ ~MatchesEmpIdPattern(titleValue)
     /\ JStr(titleValue) # empIdValue
     /\ titleValue \notin SkipValues
     /\ ~IsBlank(titleValue)
  THEN JStr(titleValue)
  ELSE IF Truthy(employee) /\ IsObj(employee) /\ Truthy(Get(employee.kv, "displayName"))
  THEN Get(employee.kv, "displayName")
  ELSE IF /\ Truthy(employee) /\ IsStr(employee)
          /\ ~MatchesEmpIdPattern(employee.s)
          /\ employee # empIdValue
  THEN employee
  ELSE IF named # {}
  THEN fields[CHOOSE i \in named : \A j \in named : i <= j][2]
  ELSE JNull

----------------------------------------------------------------------------
(* resolveEmployeeNames, lines 1805-1958: the synchronous parts             *)

\* lines 1808, 1810: the Employee field is an expanded object
IsExpanded(record) == Truthy(Get(record, "Employee")) /\ IsObj(Get(record, "Employee"))

\* lines 1809-1820: the forEach body of the expanded case
ResolveExpanded(record) ==
  IF IsExpanded(record)
  THEN LET e == Get(record, "Employee").kv
           employeeName == Or(Or(Or(Get(e, "displayName"), Get(e, "LookupValue")), Get(e, "Title")),
                               Get(e, "email"))
       IN IF Truthy(employeeName) /\ IsStr(employeeName) /\ ~MatchesEmpIdPattern(employeeName.s)
          THEN Put(Put(record, "Employee", employeeName), "EmployeeName", employeeName)
          ELSE record
  ELSE record

\* lines 1827-1830, 1863-1866, 1942-1945: the numeric id of a lookup value
\* (NaN when there is none)
LookupNumber(v) ==
  CASE v.t = "string" -> ParseInt(v.s)
    [] v.t = "number" -> v.n
    [] OTHER -> NaN

\* record.EmployeeLookupId != null && !isNaN(id) && id > 0
HasLookupId(record, key) ==
  /\ Get(record, key).t \notin {"null", "undefined"}
  /\ LookupNumber(Get(record, key)) > 0

\* append to a Set: insertion order, no duplicates
SetAdd(seq, x) == IF \E i \in 1..Len(seq) : seq[i] = x THEN seq ELSE Append(seq, x)

\* lines 1825-1835: the ids to fetch, in the order a Set iterates
RECURSIVE CollectEmployeeIds(_, _)
CollectEmployeeIds(records, acc) ==
  IF records = <<>> THEN acc
  ELSE CollectEmployeeIds(Tail(records),
         IF HasLookupId(Head(records), "EmployeeLookupId")
         THEN SetAdd(acc, LookupNumber(Get(Head(records), "EmployeeLookupId")))
         ELSE acc)

\* lines 1844-1847: cachedEmployees.find by Id; 0 when there is none
FindCached(cachedEmployees, id) ==
  LET hits == {i \in 1..Len(cachedEmployees) : LookupNumber(Get(cachedEmployees[i], "Id")) = id} IN
  IF hits = {} THEN 0 ELSE CHOOSE i \in hits : \A j \in hits : i <= j

\* lines 1849-1855: the name the cache gives for id, or null
CachedEmployeeName(cachedEmployees, id) ==
  LET i == FindCached(cachedEmployees, id) IN
  IF i = 0 THEN JNull ELSE ExtractEmployeeName([fields |-> JObj(cachedEmployees[i])])

\* lines 1842-1857: employeeNameCache after the pass over cachedEmployees
NamesFromCache(ids, cachedEmployees) ==
  LET found == {i \in 1..Len(ids) : Truthy(CachedEmployeeName(cachedEmployees, ids[i]))} IN
  [n \in {ids[i] : i \in found} |-> CachedEmployeeName(cachedEmployees, n)]

\* lines 1853, 1860: the ids left to fetch after the pass over cachedEmployees
RECURSIVE Without(_, _)
Without(seq, S) ==
  IF seq = <<>> THEN <<>>
  ELSE IF Head(seq) \in S THEN Without(Tail(seq), S) ELSE <<Head(seq)>> \o Without(Tail(seq), S)

\* the placeholder `[ID: ${id}]`, lines 1874 and 1953
Placeholder(idChars) == JStr(Chars["[ID: "] \o idChars \o Chars["]"])

\* lines 1862-1877 and 1941-1956: the forEach body that populates a record
PopulateEmployee(record, names) ==
  IF HasLookupId(record, "EmployeeLookupId")
  THEN LET employeeId == LookupNumber(Get(record, "EmployeeLookupId")) IN
       IF employeeId \in DOMAIN names /\ Truthy(names[employeeId])
       THEN Put(Put(record, "Employee", names[employeeId]), "EmployeeName", names[employeeId])
       ELSE Put(record, "Employee", Placeholder(NumToChars(employeeId)))
  ELSE record

MapRecords(records, F(_)) == [i \in 1..Len(records) |-> F(records[i])]
----------------------------------------------------------------------------
(* resolveAssigneeNames, lines 1963-2061: the synchronous parts             *)

IsHex(c) == IsDigit(c) \/ LowerChar(c) \in {"a", "b", "c", "d", "e", "f"}

\* line 2014: /^[0-9a-f]{8}-[0-9a-f]{4}-[0-9a-f]{4}-[0-9a-f]{4}-[0-9a-f]{12}$/i
IsGuidFormat(cs) ==
  /\ Len(cs) = 36
  /\ \A i \in 1..36 : IF i \in {9, 14, 19, 24} THEN cs[i] = "-" ELSE IsHex(cs[i])

\* record.field_2LookupId != null
HasAssignee(record) == Get(record, "field_2LookupId").t \notin {"null", "undefined"}

\* lines 1964-1969: the user ids, String(field_2LookupId), in the order a Set iterates
RECURSIVE CollectUserIds(_, _)
CollectUserIds(records, acc) ==
  IF records = <<>> THEN acc
  ELSE CollectUserIds(Tail(records),
         IF HasAssignee(Head(records))
         THEN SetAdd(acc, ToStringChars(Get(Head(records), "field_2LookupId")))
         ELSE acc)

\* lines 1979-1988: the name the record found by `r.field_2LookupId === userId` carries inline
InlineUserName(records, userId) ==
  LET hits == {i \in 1..Len(records) : Get(records[i], "field_2LookupId") = JStr(userId)} IN
  IF hits = {} THEN JUndef
  ELSE LET r == records[CHOOSE i \in hits : \A j \in hits : i <= j]
           f == Get(r, "field_2")
       IN IF Truthy(f) /\ IsObj(f)
          THEN Or(Or(Get(f.kv, "displayName"), Get(f.kv, "Title")), Get(f.kv, "userPrincipalName"))
          ELSE JUndef

\* lines 1991-2010: the name cachedEmployees gives for userId
CachedUserName(cachedEmployees, userId) ==
  LET employeeId == ParseInt(userId)
      i == IF Len(cachedEmployees) > 0 /\ employeeId > 0 THEN FindCached(cachedEmployees, employeeId) ELSE 0
  IN IF i = 0 THEN JUndef
     ELSE LET e == cachedEmployees[i] IN
          Or(Or(Or(Get(e, "Employee"), Get(e, "EmployeeName")), Get(e, "Title")), Get(e, "displayName"))

\* line 2018: the name a users/{id} answer gives
UserInfoName(userInfo) == Or(Or(userInfo.displayName, userInfo.userPrincipalName), userInfo.mail)

\* lines 2034-2059: the forEach body that populates a record
PopulateAssignee(record, names) ==
  IF HasAssignee(record)
  THEN LET userId == ToStringChars(Get(record, "field_2LookupId"))
           f == Get(record, "field_2")
           inline == IF Truthy(f) /\ IsObj(f)
                     THEN Or(Or(Or(Get(f.kv, "displayName"), Get(f.kv, "Title")),
                                Get(f.kv, "userPrincipalName")), Get(f.kv, "email"))
                     ELSE JUndef
       IN IF Truthy(inline)
          THEN Put(Put(record, "Assignee", inline), "AssigneeName", inline)
          ELSE IF userId \in DOMAIN names /\ Truthy(names[userId])
          THEN Put(Put(record, "Assignee", names[userId]), "AssigneeName", names[userId])
          ELSE Put(record, "Assignee", Placeholder(userId))
  ELSE record

----------------------------------------------------------------------------
(* getRecords, lines 2093-2135                                              *)

\* lines 2105-2111: the record of an item
ToRecord(item) ==
  Spread(<< <<"Id", item.id>> >>, IF Truthy(item.fields) /\ IsObj(item.fields) THEN item.fields.kv ELSE <<>>)

\* the test of line 2126 without the length check
ResolvesEmployees_AlsoEmpty(listName, records) == listName = "Access Cards"

\* lines 2126 and 2130: which resolver runs
ResolvesEmployees(listName, records) == listName = "Access Cards" /\ Len(records) > 0

ResolvesAssignees(listName, records) == listName = "Assets" /\ Len(records) > 0

\* getRecords, lines 2102-2134: the listing arrives
GetRecordsItems ==
  /\ pc = "op_response"
  /\ op.name = "getRecords"
  /\ LET records == MapRecords(ret.value, ToRecord) IN
     /\ hist' = [hist EXCEPT !.pages = ret.all]
     /\ IF ResolvesEmployees(op.listName, records)
        THEN /\ loc' = [loc EXCEPT !.records = records]
             /\ Call("ren", "none", "gr_resolved")
             /\ UNCHANGED <<ret, result>>
        ELSE IF ResolvesAssignees(op.listName, records)
        THEN /\ loc' = [loc EXCEPT !.records = records]
             /\ Call("ran", "none", "gr_resolved")
             /\ UNCHANGED <<ret, result>>
        ELSE Finish(records)
  /\ UNCHANGED <<svcVars, cfgVars, authPc, authResult, op, net>>

\* getRecords, line 2134
GetRecordsResolved ==
  /\ pc = "gr_resolved"
  /\ Finish(loc.records)
  /\ UNCHANGED <<svcVars, cfgVars, authPc, authResult, op, net, hist>>

----------------------------------------------------------------------------
(* resolveEmployeeNames, lines 1805-1958: the steps                         *)
(* The try of lines 1892-1937 around the loop body has nothing to catch:   *)
(* every statement that can throw stands in an inner try.                  *)

TypeError == [kind |-> "TypeError", msg |-> "Cannot read properties of undefined"]

PushCatch(l, st) == <<CatchFrame(l)>> \o st

\* lines 1805-1885: up to the first await
ResolveEmployeeNames ==
  /\ pc = "ren"
  /\ LET records == loc.records IN
     IF records = <<>>
     THEN /\ Throw(TypeError)
          /\ hist' = [hist EXCEPT !.resolvers = @ \cup {"employee"}]
     ELSE IF IsExpanded(records[1])
     THEN /\ loc' = [loc EXCEPT !.records = MapRecords(records, ResolveExpanded)]
          /\ hist' = [hist EXCEPT !.resolvers = @ \cup {"employee"}]
          /\ Return("undefined")
          /\ UNCHANGED <<arg, result>>
     ELSE
       LET ids == CollectEmployeeIds(records, <<>>)
           names == IF Len(op.cached) > 0 THEN NamesFromCache(ids, op.cached) ELSE EmptyMap
           todo == Without(ids, DOMAIN names)
           Populate(r) == PopulateEmployee(r, names)
       IN
       /\ hist' = [hist EXCEPT !.resolvers = @ \cup {"employee"}, !.ids = ids,
                               !.names = IF todo = <<>> THEN names ELSE @]
       /\ IF ids = <<>>
          THEN Return("undefined") /\ UNCHANGED <<loc, arg, result>>
          ELSE IF todo = <<>>
          THEN /\ loc' = [loc EXCEPT !.records = MapRecords(records, Populate)]
               /\ Return("undefined")
               /\ UNCHANGED <<arg, result>>
          ELSE /\ loc' = [loc EXCEPT !.names = names, !.todo = todo]
               /\ pc' = "gl"
               /\ arg' = "Employees"
               /\ stack' = <<RetFrame("ren_employees")>> \o PushCatch("ren_no_employees", stack)
               /\ UNCHANGED <<ret, result>>
  /\ UNCHANGED <<svcVars, cfgVars, authPc, authResult, op, net>>

\* line 1885: getListId('Employees') returned
RenEmployees ==
  /\ pc = "ren_employees"
  /\ loc' = [loc EXCEPT !.employeesListId = ret]
  /\ stack' = Tail(stack)
  /\ pc' = "ren_next"
  /\ UNCHANGED <<svcVars, cfgVars, authPc, authResult, op, arg, ret, net, result, hist>>

\* lines 1886-1888: getListId('Employees') threw
RenNoEmployees ==
  /\ pc = "ren_no_employees"
  /\ loc' = [loc EXCEPT !.employeesListId = Null]
  /\ pc' = "ren_next"
  /\ UNCHANGED <<svcVars, cfgVars, authPc, authResult, op, stack, arg, ret, net, result, hist>>

ItemRequest(sid, listId, id) ==
  Req("item", "GET", <<"sites", sid, "lists", listId, "items", id>>, "none")

\* lines 1891-1904 and 1940-1957: the next id, or the records are populated
RenNext ==
  /\ pc = "ren_next"
  /\ IF loc.todo = <<>>
     THEN LET Populate(r) == PopulateEmployee(r, loc.names) IN
          /\ loc' = [loc EXCEPT !.records = MapRecords(loc.records, Populate)]
          /\ hist' = [hist EXCEPT !.names = loc.names]
          /\ Return("undefined")
          /\ UNCHANGED arg
     ELSE IF loc.employeesListId # Null /\ loc.employeesListId # ""
     THEN /\ pc' = "mgr"
          /\ arg' = ItemRequest(loc.siteId, loc.employeesListId, Head(loc.todo))
          /\ stack' = <<RetFrame("ren_employee")>> \o PushCatch("ren_cards", stack)
          /\ UNCHANGED <<loc, ret, hist>>
     ELSE /\ pc' = "ren_cards"
          /\ UNCHANGED <<loc, ret, stack, arg, hist>>
  /\ UNCHANGED <<svcVars, cfgVars, authPc, authResult, op, net, result>>

\* lines 1898-1900: the item of the Employees list arrived
RenEmployee ==
  /\ pc = "ren_employee"
  /\ loc' = [loc EXCEPT !.item = ret]
  /\ stack' = Tail(stack)
  /\ pc' = "ren_extract"
  /\ UNCHANGED <<svcVars, cfgVars, authPc, authResult, op, arg, ret, net, result, hist>>

\* lines 1907-1909: no item yet, try the Access Cards list
RenCards ==
  /\ pc = "ren_cards"
  /\ pc' = "gl"
  /\ arg' = "Access Cards"
  /\ stack' = <<RetFrame("ren_cards_list")>> \o PushCatch("ren_cards_failed", stack)
  /\ UNCHANGED <<svcVars, cfgVars, authPc, authResult, op, ret, loc, net, result, hist>>

\* lines 1910-1912
RenCardsList ==
  /\ pc = "ren_cards_list"
  /\ Call("mgr", ItemRequest(loc.siteId, ret, Head(loc.todo)), "ren_card")
  /\ UNCHANGED <<svcVars, cfgVars, authPc, authResult, op, ret, loc, net, result, hist>>

\* lines 1915-1924: the name an Access Cards item carries in its Employee field
CardEmployeeName(item) ==
  LET f == IF IsObj(item.fields) THEN item.fields.kv ELSE <<>>
      empField == Get(f, "Employee")
  IN IF Truthy(Get(f, "AccessCardNo")) /\ Truthy(empField)
     THEN IF IsObj(empField) /\ Truthy(Get(empField.kv, "displayName"))
          THEN Get(empField.kv, "displayName")
          ELSE IF IsStr(empField) /\ ~MatchesEmpIdPattern(empField.s)
          THEN empField
          ELSE JUndef
     ELSE JUndef

\* lines 1913-1924: the item of the Access Cards list arrived
RenCard ==
  /\ pc = "ren_card"
  /\ stack' = Tail(stack)
  /\ LET name == CardEmployeeName(ret) IN
     IF name # JUndef
     THEN /\ loc' = [loc EXCEPT !.names = (Head(loc.todo) :> name) @@ @, !.todo = Tail(@)]
          /\ pc' = "ren_next"
     ELSE /\ loc' = [loc EXCEPT !.item = ret]
          /\ pc' = "ren_extract"
  /\ UNCHANGED <<svcVars, cfgVars, authPc, authResult, op, arg, ret, net, result, hist>>

\* lines 1925-1927: `continue`
RenCardsFailed ==
  /\ pc = "ren_cards_failed"
  /\ loc' = [loc EXCEPT !.todo = Tail(@)]
  /\ pc' = "ren_next"
  /\ UNCHANGED <<svcVars, cfgVars, authPc, authResult, op, stack, arg, ret, net, result, hist>>

\* lines 1930-1934
RenExtract ==
  /\ pc = "ren_extract"
  /\ LET employeeName == ExtractEmployeeName(loc.item) IN
     loc' = [loc EXCEPT !.names = IF Truthy(employeeName) THEN (Head(loc.todo) :> employeeName) @@ @ ELSE @,
                        !.todo = Tail(@),
                        !.item = "none"]
  /\ pc' = "ren_next"
  /\ UNCHANGED <<svcVars, cfgVars, authPc, authResult, op, stack, arg, ret, net, result, hist>>

----------------------------------------------------------------------------
(* resolveAssigneeNames, lines 1963-2061: the steps                         *)

\* lines 1963-1973
ResolveAssigneeNames ==
  /\ pc = "ran"
  /\ LET ids == CollectUserIds(loc.records, <<>>) IN
     /\ hist' = [hist EXCEPT !.resolvers = @ \cup {"assignee"}, !.ids = ids]
     /\ IF ids = <<>>
        THEN Return("undefined") /\ UNCHANGED <<loc, arg>>
        ELSE /\ loc' = [loc EXCEPT !.names = EmptyMap, !.todo = ids]
             /\ pc' = "ran_next"
             /\ UNCHANGED <<stack, arg, ret>>
  /\ UNCHANGED <<svcVars, cfgVars, authPc, authResult, op, net, result>>

\* lines 1976-2017 and 2033-2060: the next user id, or the records are populated
RanNext ==
  /\ pc = "ran_next"
  /\ IF loc.todo = <<>>
     THEN LET Populate(r) == PopulateAssignee(r, loc.names) IN
          /\ loc' = [loc EXCEPT !.records = MapRecords(loc.records, Populate)]
          /\ hist' = [hist EXCEPT !.names = loc.names]
          /\ Return("undefined")
          /\ UNCHANGED arg
     ELSE
       /\ UNCHANGED hist
       /\ LET userId == Head(loc.todo)
              inline == InlineUserName(loc.records, userId)
              cached == CachedUserName(op.cached, userId)
          IN
          IF Truthy(inline) \/ Truthy(cached)
          THEN /\ loc' = [loc EXCEPT !.names = (userId :> (IF Truthy(inline) THEN inline ELSE cached)) @@ @,
                                     !.todo = Tail(@)]
               /\ UNCHANGED <<pc, stack, arg, ret>>
          ELSE IF IsGuidFormat(userId)
          THEN /\ pc' = "mgr"
               /\ arg' = Req("user", "GET", <<"users", userId>>, "none")
               /\ stack' = <<RetFrame("ran_user")>> \o PushCatch("ran_user_failed", stack)
               /\ UNCHANGED <<loc, ret>>
          ELSE /\ loc' = [loc EXCEPT !.todo = Tail(@)]
               /\ UNCHANGED <<pc, stack, arg, ret>>
  /\ UNCHANGED <<svcVars, cfgVars, authPc, authResult, op, net, result>>

\* lines 2017-2022: the user arrived
RanUser ==
  /\ pc = "ran_user"
  /\ stack' = Tail(stack)
  /\ LET userName == UserInfoName(ret) IN
     loc' = [loc EXCEPT !.names = IF Truthy(userName) THEN (Head(loc.todo) :> userName) @@ @ ELSE @,
                        !.todo = Tail(@)]
  /\ pc' = "ran_next"
  /\ UNCHANGED <<svcVars, cfgVars, authPc, authResult, op, arg, ret, net, result, hist>>

\* a catch that passes the failure of the user request on
RanUserFailed_Rethrown ==
  /\ pc = "ran_user_failed"
  /\ Throw(ret)
  /\ UNCHANGED <<svcVars, cfgVars, authPc, authResult, op, net, hist>>

\* lines 2023-2026: the request failed
RanUserFailed ==
  /\ pc = "ran_user_failed"
  /\ loc' = [loc EXCEPT !.todo = Tail(@)]
  /\ pc' = "ran_next"
  /\ UNCHANGED <<svcVars, cfgVars, authPc, authResult, op, stack, arg, ret, net, result, hist>>

----------------------------------------------------------------------------
(* isCurrentUserAdmin, getAllUsers, getAdminUsers,                          *)
(* getCurrentUserWithAdminStatus: lines 2197-2384                           *)

\* lines 2203-2228
AdminStatus(groups) ==
  LET IsAdminRole(g) == g.type = "#microsoft.graph.directoryRole" /\ g.roleTemplateId \in AdminRoleTemplateIds
      adminRoles == SelectSeq(groups, IsAdminRole)
  IN [isAdmin |-> adminRoles # <<>>,
      roles |-> [i \in 1..Len(adminRoles) |->
                   IF adminRoles[i].displayName # "" THEN adminRoles[i].displayName ELSE "Unknown Role"]]

\* lines 2231-2234
NotAdmin == [isAdmin |-> FALSE, roles |-> <<>>]

\* isCurrentUserAdmin, lines 2202-2228: me/memberOf arrived
AdminGroups ==
  /\ pc = "adm_groups"
  /\ Finish(AdminStatus(ret.value))
  /\ UNCHANGED <<svcVars, cfgVars, authPc, authResult, op, net, hist>>

\* isCurrentUserAdmin, lines 2229-2235: the catch
AdminFailed ==
  /\ pc = "adm_failed"
  /\ Finish(NotAdmin)
  /\ UNCHANGED <<svcVars, cfgVars, authPc, authResult, op, net, hist>>

\* line 2256
MaxPages == 50

UsersRequest(n) == Req("users", "GET", <<"users", n>>, "none")

\* lines 2266-2274: the user of the result made from a user of the response
MapUser(user) ==
  [ id |-> user.id,
    displayName |-> user.displayName,
    userPrincipalName |-> user.userPrincipalName,
    mail |-> IF user.mail # "" THEN user.mail ELSE user.userPrincipalName ]

\* the users of a page put in front of the users collected so far
AppendUsers_InFront(allUsers, users) == users \o allUsers

\* line 2276: allUsers.push(...users)
AppendUsers(allUsers, users) == allUsers \o users

\* getAllUsers, lines 2263-2289: a page arrived
UsersPage ==
  /\ pc = "users_page"
  /\ LET allUsers == AppendUsers(loc.records, [i \in 1..Len(ret.value) |-> MapUser(ret.value[i])])
         pageCount == loc.pageCount + 1
     IN IF pageCount >= MaxPages \/ ~ret.nextLink
        THEN Finish(allUsers)
        ELSE /\ loc' = [loc EXCEPT !.records = allUsers, !.pageCount = pageCount]
             /\ Call("mgr", UsersRequest(pageCount + 1), "users_page")
             /\ UNCHANGED <<ret, result>>
  /\ hist' = [hist EXCEPT !.more = ret.nextLink]
  /\ UNCHANGED <<svcVars, cfgVars, authPc, authResult, op, net>>

\* a catch that returns the users collected before the failure
UsersFailed_Partial ==
  /\ pc = "users_failed"
  /\ Finish(loc.records)
  /\ UNCHANGED <<svcVars, cfgVars, authPc, authResult, op, net, hist>>

\* getAllUsers, lines 2290-2303, and getAdminUsers, lines 2344-2357: the catch
UsersFailed ==
  /\ pc = "users_failed"
  /\ Finish(<<>>)
  /\ UNCHANGED <<svcVars, cfgVars, authPc, authResult, op, net, hist>>

\* getAdminUsers, lines 2318-2328: directoryRoles arrived
AdminRoles ==
  /\ pc = "adr_roles"
  /\ LET IsGlobal(r) == r.roleTemplateId = GlobalAdministrator
         found == SelectSeq(ret.value, IsGlobal)
     IN IF found = <<>>
        THEN Finish(<<>>)
        ELSE /\ Call("mgr", Req("members", "GET", <<"directoryRoles", found[1].id, "members">>, "none"),
                     "adr_members")
             /\ UNCHANGED <<ret, result, loc>>
  /\ UNCHANGED <<svcVars, cfgVars, authPc, authResult, op, net, hist>>

\* getAdminUsers, lines 2330-2343: the members arrived
AdminMembers ==
  /\ pc = "adr_members"
  /\ LET IsUser(m) == m.type = "#microsoft.graph.user"
         users == SelectSeq(ret.value, IsUser)
     IN Finish([i \in 1..Len(users) |-> [id |-> users[i].id, roles |-> <<"Global Administrator">>]])
  /\ UNCHANGED <<svcVars, cfgVars, authPc, authResult, op, net, hist>>

\* getCurrentUser, lines 2184-2191: the mapped profile
UserProfile(response) ==
  [response EXCEPT !.mail = IF response.mail # "" THEN response.mail ELSE response.userPrincipalName]

\* getCurrentUserWithAdminStatus, line 2375: both calls start in the same
\* synchronous stretch, each with the token check of makeGraphRequest
BothStart ==
  /\ pc = "both"
  /\ IF ~IsAuthenticated(accessToken)
     THEN /\ Settle([ok |-> FALSE, err |-> NotAuthenticated])
          /\ UNCHANGED <<net, hist>>
     ELSE /\ net' = { Request(Req("me", "GET", <<"me">>, "none"), accessToken),
                      Request(Req("memberOf", "GET", <<"me", "memberOf">>, "none"), accessToken) }
          /\ hist' = [hist EXCEPT !.reqs = @ \o <<"me", "memberOf">>]
          /\ pc' = "wait_all"
          /\ UNCHANGED <<stack, arg, ret, loc, result>>
  /\ UNCHANGED <<svcVars, cfgVars, authPc, authResult, op>>

\* Promise.all, lines 2375-2383: one of the two responses arrives
BothResponse ==
  /\ pc = "wait_all"
  /\ \E r \in net :
       \/ /\ r.kind = "me"
          /\ \E b \in Bodies(r) :
               IF loc.admin.settled
               THEN Finish([user |-> UserProfile(b), isAdmin |-> loc.admin.value.isAdmin, roles |-> loc.admin.value.roles])
                    /\ net' = {}
               ELSE /\ loc' = [loc EXCEPT !.user = Settled(UserProfile(b))]
                    /\ net' = net \ {r}
                    /\ UNCHANGED <<pc, stack, arg, ret, result>>
       \/ /\ r.kind = "me"
          /\ Settle([ok |-> FALSE, err |-> GraphError])
          /\ net' = {}
       \/ /\ r.kind = "memberOf"
          /\ \E a \in {AdminStatus(b.value) : b \in Bodies(r)} \cup {NotAdmin} :
               IF loc.user.settled
               THEN Finish([user |-> loc.user.value, isAdmin |-> a.isAdmin, roles |-> a.roles])
                    /\ net' = {}
               ELSE /\ loc' = [loc EXCEPT !.admin = Settled(a)]
                    /\ net' = net \ {r}
                    /\ UNCHANGED <<pc, stack, arg, ret, result>>
  /\ authResult' = NoAuthEvent
  /\ UNCHANGED <<svcVars, cfgVars, authPc, op, hist>>

----------------------------------------------------------------------------
(* The operations.                                                         *)

Operation(name, listName, itemId, fields, cached) ==
  [name |-> name, listName |-> listName, itemId |-> itemId, fields |-> fields, cached |-> cached]

\* the calls the list screens make
ListOps ==
  {Operation("getLists", "", "", <<>>, <<>>)}
  \cup {Operation("getList", n, "", <<>>, <<>>) : n \in ListNames}
  \cup {Operation("insertRecord", "Assets", "", <<<<"Title", Lit("Laptop")>>>>, <<>>)}
  \cup {Operation("updateRecord", "Assets", "7", f, <<>>) :
          f \in { << <<"CardStatus", Lit("Assigned")>> >>,
                  << <<"Title", JUndef>>, <<"CardStatus", Lit("Assigned")>> >> }}
  \cup {Operation("deleteRecord", "Assets", "7", <<>>, <<>>)}
  \cup {Operation("getRecords", n, "", <<>>, c) : n \in {"Access Cards", "Assets", "Employees"}, c \in CachedEmployees}

\* the calls the user directory makes
DirectoryOps ==
  {Operation(n, "", "", <<>>, <<>>) :
     n \in {"getCurrentUser", "isCurrentUserAdmin", "getAllUsers", "getAdminUsers",
            "getCurrentUserWithAdminStatus"}}

\* JSON.stringify, lines 2078 and 2152, as the server parses it: a key whose
\* value is undefined is left out, NaN becomes null
RECURSIVE JsonOf(_), JsonEntries(_)
JsonOf(v) ==
  CASE v.t = "object" -> JObj(JsonEntries(v.kv))
    [] v.t = "number" -> IF v.n = NaN THEN JNull ELSE v
    [] OTHER -> v

JsonEntries(kv) ==
  IF kv = <<>> THEN <<>>
  ELSE IF Head(kv)[2].t = "undefined" THEN JsonEntries(Tail(kv))
  ELSE << <<Head(kv)[1], JsonOf(Head(kv)[2])>> >> \o JsonEntries(Tail(kv))

\* a body that wraps the mapping as the body of insertRecord does
PatchBody_Wrapped(fields) == JObj(<< <<"fields", JsonOf(JObj(fields))>> >>)

\* line 2152: body: JSON.stringify(fields)
PatchBody(fields) == JsonOf(JObj(fields))

\* lines 2072-2078: body: JSON.stringify({fields: fields})
PostBody(fields) == [fields |-> JsonOf(JObj(fields))]

ResolvesIds(o) == o.name \in {"getList", "insertRecord", "updateRecord", "deleteRecord", "getRecords"}

\* the request of the operation once listId and siteId are known
MainRequest(o, listId, sid) ==
  CASE o.name = "getList" -> Req("list", "GET", <<"sites", sid, "lists", listId>>, "none")
    [] o.name = "insertRecord" ->
         Req("post", "POST", <<"sites", sid, "lists", listId, "items">>, PostBody(o.fields))
    [] o.name = "updateRecord" ->
         Req("patch", "PATCH", <<"sites", sid, "lists", listId, "items", o.itemId, "fields">>,
             PatchBody(o.fields))
    [] o.name = "deleteRecord" ->
         Req("delete", "DELETE", <<"sites", sid, "lists", listId, "items", o.itemId>>, "none")
    [] o.name = "getRecords" ->
         Req("items", "GET", <<"sites", sid, "lists", listId, "items?$expand=fields">>, "none")

\* a screen calls an operation of the service; its first line runs
\* where an operation starts: its first call, the frames under it, the argument
Entry(o) ==
  CASE ResolvesIds(o) -> [pc |-> "gl", stack |-> <<RetFrame("op_listId")>>, arg |-> o.listName]
    [] o.name = "getLists" -> [pc |-> "gs", stack |-> <<RetFrame("gls_site")>>, arg |-> "none"]
    [] o.name = "getCurrentUser" ->
         [pc |-> "mgr", stack |-> <<RetFrame("cu_me")>>, arg |-> Req("me", "GET", <<"me">>, "none")]
    [] o.name = "isCurrentUserAdmin" ->
         [pc |-> "mgr", stack |-> <<RetFrame("adm_groups"), CatchFrame("adm_failed")>>,
          arg |-> Req("memberOf", "GET", <<"me", "memberOf">>, "none")]
    [] o.name = "getAllUsers" ->
         [pc |-> "mgr", stack |-> <<RetFrame("users_page"), CatchFrame("users_failed")>>,
          arg |-> UsersRequest(1)]
    [] o.name = "getAdminUsers" ->
         [pc |-> "mgr", stack |-> <<RetFrame("adr_roles"), CatchFrame("users_failed")>>,
          arg |-> Req("directoryRoles", "GET", <<"directoryRoles">>, "none")]
    [] o.name = "getCurrentUserWithAdminStatus" -> [pc |-> "both", stack |-> <<>>, arg |-> "none"]

\* a screen calls an operation of the service; its first line runs
OpStart ==
  /\ pc = "idle"
  /\ \E o \in IF screen = "lists" THEN ListOps ELSE DirectoryOps :
       /\ op' = o
       /\ pc' = Entry(o).pc
       /\ stack' = Entry(o).stack
       /\ arg' = Entry(o).arg
       /\ hist' = [HistInit EXCEPT !.resolved = hist.resolved, !.fresh = hist.fresh,
                                   !.relogin = IF op = NoOp /\ hist.relogin = "in" THEN "in" ELSE "no",
                                   !.again = /\ hist.glDone.entry \in {"not found", "not found again"}
                                             /\ hist.glDone.name = o.listName]
  /\ loc' = LocInit
  /\ ret' = "none"
  /\ result' = Pending
  /\ authResult' = NoAuthEvent
  /\ UNCHANGED <<svcVars, cfgVars, authPc, net>>

\* `const listId = await this.getListId(listName); const siteId = await this.getSiteId();`
OpListId ==
  /\ pc = "op_listId"
  /\ loc' = [loc EXCEPT !.listId = ret]
  /\ Call("gs", "none", "op_siteId")
  /\ UNCHANGED <<svcVars, cfgVars, authPc, authResult, op, ret, net, result, hist>>

OpSiteId ==
  /\ pc = "op_siteId"
  /\ loc' = [loc EXCEPT !.siteId = ret]
  /\ Call("mgr", MainRequest(op, loc.listId, ret), "op_response")
  /\ UNCHANGED <<svcVars, cfgVars, authPc, authResult, op, ret, net, result, hist>>

\* the response wrapped as it is
InsertResult_AsIs(response) == [d |-> [id |-> response.id, fields |-> response.fields]]

\* insertRecord, lines 2082-2087: the wrapped response
InsertResult(response) == [d |-> [id |-> response.id, fields |-> Or(response.fields, JObj(<<>>))]]

\* getList (1743), insertRecord (2082), updateRecord (2148), deleteRecord (2164): the result
OpResponse ==
  /\ pc = "op_response"
  /\ op.name \in {"getList", "insertRecord", "updateRecord", "deleteRecord"}
  /\ Finish(CASE op.name = "getList" -> ret
              [] op.name = "insertRecord" -> InsertResult(ret)
              [] op.name = "updateRecord" -> ret
              [] op.name = "deleteRecord" -> "undefined")
  /\ UNCHANGED <<svcVars, cfgVars, authPc, authResult, op, net, hist>>

\* getLists, lines 1731-1735
GetListsSite ==
  /\ pc = "gls_site"
  /\ Call("mgr", Req("lists", "GET", <<"sites", ret, "lists">>, "none"), "gls_lists")
  /\ UNCHANGED <<svcVars, cfgVars, authPc, authResult, op, ret, loc, net, result, hist>>

GetListsLists ==
  /\ pc = "gls_lists"
  /\ Finish(ret.value)
  /\ UNCHANGED <<svcVars, cfgVars, authPc, authResult, op, net, hist>>

\* getCurrentUser, lines 2183-2191
GetCurrentUserMe ==
  /\ pc = "cu_me"
  /\ Finish(UserProfile(ret))
  /\ UNCHANGED <<svcVars, cfgVars, authPc, authResult, op, net, hist>>

----------------------------------------------------------------------------

Init ==
  /\ \E w \in Worlds :
       /\ clientId = w.clientId
       /\ tenantId = w.tenantId
       /\ srvLists = w.srvLists
       /\ screen = w.screen
  /\ accessToken = Null
  /\ siteId = Null
  /\ listIdCache = EmptyMap
  /\ authPc = "idle"
  /\ authResult = NoAuthEvent
  /\ op = NoOp
  /\ pc = "idle"
  /\ stack = <<>>
  /\ arg = "none"
  /\ ret = "none"
  /\ loc = LocInit
  /\ net = {}
  /\ result = Pending
  /\ hist = HistInit
  /\ ui = NoUi

Next ==
  \/ AuthStart
  \/ AuthPrompted
  \/ AuthExchanged
  \/ \E t \in TokenInputs : SetAccessToken(t)
  \/ OpStart
  \/ MgrSend
  \/ MgrResponse
  \/ GetSiteId
  \/ GetSiteIdData
  \/ GetListId
  \/ GetListIdSite
  \/ GetListIdLists
  \/ OpListId
  \/ OpSiteId
  \/ OpResponse
  \/ GetListsSite
  \/ GetListsLists
  \/ GetCurrentUserMe
  \/ GetRecordsItems
  \/ GetRecordsResolved
  \/ ResolveEmployeeNames
  \/ RenEmployees
  \/ RenNoEmployees
  \/ RenNext
  \/ RenEmployee
  \/ RenCards
  \/ RenCardsList
  \/ RenCard
  \/ RenCardsFailed
  \/ RenExtract
  \/ ResolveAssigneeNames
  \/ RanNext
  \/ RanUser
  \/ RanUserFailed
  \/ AdminGroups
  \/ AdminFailed
  \/ UsersPage
  \/ UsersFailed
  \/ AdminRoles
  \/ AdminMembers
  \/ BothStart
  \/ BothResponse

Spec == Init /\ [][Next]_vars

----------------------------------------------------------------------------
(* Properties of the session manager                                       *)

\* the configuration is unusable: an identifier is empty or the placeholder
BadConfig ==
  \/ clientId \in {"", "YOUR_CLIENT_ID_HERE"}
  \/ tenantId \in {"", "YOUR_TENANT_ID_HERE"}

\* the step is the first of an authenticate() call
AuthCalled == authPc = "idle" /\ (authPc' # "idle" \/ authResult' # NoAuthEvent)

\* C1: with a clientId or tenantId that is empty or the placeholder string,
\* authenticate() fails with a configuration error in its first step, before
\* the authorization prompt is opened and before any request is sent, and
\* leaves accessToken, siteId and listIdCache as they were.
C1_ConfigErrorBeforePrompt ==
  /\ [](BadConfig => authPc = "idle")
  /\ [][BadConfig /\ AuthCalled =>
          /\ authPc' = "idle"
          /\ ~authResult'.ok
          /\ authResult'.msg \in {"Client ID not configured", "Tenant ID not configured"}
          /\ UNCHANGED <<accessToken, siteId, listIdCache, net>>]_vars

\* authenticate() has just failed on the placeholder clientId, in a session
\* that holds a token and resolved ids
C1_Witness ==
  /\ clientId = "YOUR_CLIENT_ID_HERE"
  /\ authResult = [ok |-> FALSE, msg |-> "Client ID not configured"]
  /\ accessToken = "tokA"
  /\ siteId = "site-1"
  /\ listIdCache # EmptyMap

LoggedOutCall == accessToken = "" /\ pc \in {"mgr", "both"} /\ hist.reqs = <<>>

NotAuthenticatedError == [kind |-> "Error", msg |-> "Not authenticated. Call authenticate() first."]

\* the operations that catch every error
BestEffortOps == {"isCurrentUserAdmin", "getAllUsers", "getAdminUsers"}

\* C3, for the operations as they are: while the token stored by setAccessToken('') stays
\* empty, a call of getLists, getList, getRecords, insertRecord,
\* updateRecord, deleteRecord, getCurrentUser or
\* getCurrentUserWithAdminStatus fails with 'Not authenticated' without
\* sending a request; isCurrentUserAdmin, getAllUsers and getAdminUsers
\* catch that error and resolve to {isAdmin: false, roles: []} and [].
C3_LoggedOutCalls ==
  /\ [][LoggedOutCall =>
          /\ net' = net
          /\ hist'.reqs = <<>>
          /\ IF op.name \in BestEffortOps
             THEN pc' \in {"adm_failed", "users_failed"} /\ ret' = NotAuthenticatedError
             ELSE pc' = "idle" /\ result' = [ok |-> FALSE, err |-> NotAuthenticatedError]]_vars
  /\ [][pc = "adm_failed" => result' = [ok |-> TRUE, val |-> [isAdmin |-> FALSE, roles |-> <<>>]]]_vars
  /\ [][pc = "users_failed" => result' = [ok |-> TRUE, val |-> <<>>]]_vars

\* the operation was called while the token was '' and has settled: it sent
\* nothing, and no session step has followed it
CalledLoggedOut == pc = "idle" /\ op # NoOp /\ accessToken = "" /\ hist.reqs = <<>>

\* getAllUsers, called after the logout, has resolved to []
C3_Witness ==
  /\ CalledLoggedOut
  /\ op.name = "getAllUsers"
  /\ result = [ok |-> TRUE, val |-> <<>>]

\* C3 as stated: every operation called after setAccessToken('') fails with
\* 'Not authenticated'.
C3_AllFail ==
  CalledLoggedOut => result = [ok |-> FALSE, err |-> NotAuthenticatedError]

\* C4: a request is sent only while the stored token is neither null nor
\* empty, and it carries the token stored at the moment it is sent, whatever
\* authenticate, setAccessToken and the data operations did before.
C4_RequestsBearToken ==
  /\ [](\A r \in net : r.auth \notin {Null, ""})
  /\ [][\A r \in net' \ net : r.auth = accessToken /\ accessToken \notin {Null, ""}]_vars

\* a request sent under the token of authenticate() is in flight after a
\* logout
C4_Witness ==
  /\ accessToken = ""
  /\ \E r \in net : r.auth = "tokB" /\ r.kind = "items"

----------------------------------------------------------------------------
(* Properties of the resource locator                                      *)

\* C5: a getListId call for a name an earlier call of the session resolved
\* sends no list enumeration and returns the id the earlier call returned;
\* the earlier call sent exactly one: two calls in sequence, one enumeration.
C5_SecondCallFromCache ==
  /\ hist.glDone.entry = "hit" => hist.glDone.enums = 0 /\ hist.glDone.id = hist.glDone.known
  /\ hist.glDone.entry = "miss" => hist.glDone.enums = 1

\* the second call for 'Assets' has returned
C5_Witness ==
  /\ hist.glDone.entry = "hit"
  /\ hist.glDone.name = "Assets"
  /\ hist.glDone.id = "L-asset"
  /\ hist.reqs = <<>>

\* the lists of the site whose displayName or name is listName up to case
Matching(listName) ==
  { i \in 1..Len(srvLists) :
      \/ /\ srvLists[i].displayName.t = "string"
         /\ ToLowerCase(srvLists[i].displayName.s) = ToLowerCase(Chars[listName])
      \/ /\ srvLists[i].name.t = "string"
         /\ ToLowerCase(srvLists[i].name.s) = ToLowerCase(Chars[listName]) }

\* C6: getListId resolves a name to the id of a list whose displayName or
\* name equals it up to letter case, names that differ only in case resolve
\* to the same id, and a name is reported as not found only when no list
\* matches it up to case.
C6_CaseInsensitiveMatch ==
  /\ \A n \in DOMAIN listIdCache : \E i \in Matching(n) : srvLists[i].id = listIdCache[n]
  /\ \A n, m \in DOMAIN listIdCache :
       ToLowerCase(Chars[n]) = ToLowerCase(Chars[m]) => listIdCache[n] = listIdCache[m]
  /\ hist.glDone.entry \in {"not found", "not found again"} => Matching(hist.glDone.name) = {}

\* 'Assets' and 'assets' are resolved against a list named 'ASSETS', 'Access
\* Cards' against a list that has a name and no displayName
C6_Witness ==
  /\ srvLists = ListingPartial
  /\ {"Assets", "assets", "Access Cards"} \subseteq DOMAIN listIdCache
  /\ listIdCache["assets"] = "L-asset2"
  /\ listIdCache["Access Cards"] = "L-card2"

\* the display names of the site's lists, as the not-found message gives them
DisplayNames ==
  IF srvLists = ListingFull
  THEN Chars["Employees"] \o Chars[", "] \o Chars["Access Cards"] \o Chars[", "] \o Chars["Assets"]
  ELSE Chars["Access Cards"] \o Chars[", "] \o Chars["ASSETS"]

\* the error the step leaves: the operation's, or the one handed to a catch
Thrown == IF pc' = "idle" THEN result'.err ELSE ret'

\* C7: when no list matches the name up to case, getListId fails with the
\* not-found error, whose message lists the display names of the site's
\* lists, and leaves listIdCache as it was; no unmatched name is ever in
\* listIdCache, and a call repeating a name that was not found has sent one
\* list enumeration of its own when it fails again.
C7_NotFound ==
  /\ [][pc = "gl_lists" /\ Matching(loc.glName) = {} =>
          /\ Thrown.msg = "List not found"
          /\ Thrown.listName = loc.glName
          /\ Thrown.available = DisplayNames
          /\ UNCHANGED listIdCache]_vars
  /\ [](\A n \in DOMAIN listIdCache : Matching(n) # {})
  /\ [](hist.glDone.entry \in {"not found", "not found again"} => hist.glDone.enums = 1)

\* getList('Missing') has failed a second time, on a site with a list that
\* has no displayName
C7_Witness ==
  /\ srvLists = ListingPartial
  /\ pc = "idle"
  /\ op.name = "getList"
  /\ op.listName = "Missing"
  /\ ~result.ok
  /\ result.err.msg = "List not found"
  /\ hist.glDone.entry = "not found again"
  /\ hist.reqs = <<"lists">>

----------------------------------------------------------------------------
(* Properties of the record fetcher and the reference resolver             *)

\* getRecords has resolved
Fetched(listName) == pc = "idle" /\ op.name = "getRecords" /\ op.listName = listName /\ result.ok

\* the record of the result made from item, if there is one
RecordsOf(item) == { k \in 1..Len(result.val) : Get(result.val[k], "Id") = item.id }

\* C8: getRecords returns the items of every page of the item listing.
C8_EveryPage ==
  \A n \in {"Access Cards", "Assets", "Employees"} :
    Fetched(n) =>
      \A p \in 1..Len(hist.pages) : \A i \in 1..Len(hist.pages[p]) : RecordsOf(hist.pages[p][i]) # {}

\* the kinds of request that resolve the list and site ids and list the items
IsPlainFetch(reqs) ==
  /\ \A i \in 1..Len(reqs) : reqs[i] \in {"site", "lists", "items"}
  /\ Cardinality({i \in 1..Len(reqs) : reqs[i] = "items"}) = 1

\* C9: when the item listing of a list holds no item, getRecords resolves to
\* the empty sequence as soon as the listing arrives, without invoking a
\* reference resolver and having sent nothing but the id resolutions and the
\* one item listing; so for 'Access Cards' and 'Assets' too.
C9_EmptyList ==
  op.name = "getRecords" /\ hist.pages = << <<>> >> =>
    /\ pc = "idle"
    /\ result = [ok |-> TRUE, val |-> <<>>]
    /\ hist.resolvers = {}
    /\ IsPlainFetch(hist.reqs)

\* getRecords('Access Cards') has returned the empty list, with cached
\* employees at hand
C9_Witness ==
  /\ Fetched("Access Cards")
  /\ op.cached # <<>>
  /\ hist.pages = << <<>> >>
  /\ result.val = <<>>

\* the display name the expanded Employee mapping of the item carries; a
\* displayName that holds an employee number (HPH 12) is none
InlineName(item) ==
  LET e == Get(item.fields.kv, "Employee")
      d == IF e.t = "object" THEN Get(e.kv, "displayName") ELSE JUndef
  IN IF d.t = "string" /\ ~MatchesEmpIdPattern(d.s) THEN d ELSE JUndef

\* C10: getRecords('Access Cards') returns every record whose Employee field
\* arrived as an expanded mapping with a display name (a name, not an
\* employee number) with Employee equal to that name, whatever the other
\* records of the fetch look like.
C10_InlineNames ==
  Fetched("Access Cards") =>
    \A i \in 1..Len(hist.pages[1]) :
      LET item == hist.pages[1][i] IN
      InlineName(item) # JUndef =>
        \A k \in RecordsOf(item) : Get(result.val[k], "Employee") = InlineName(item)

----------------------------------------------------------------------------
(* Properties of the placeholder and of the resolution tiers               *)

\* the record the resolvers start from for an item of the listing
Fields(item) == ToRecord(item)

\* the lookup id of a record of the list: a number for 'Access Cards', a
\* string for 'Assets'
LookupIdOf(listName, record) ==
  IF listName = "Access Cards"
  THEN LookupNumber(Get(record, "EmployeeLookupId"))
  ELSE ToStringChars(Get(record, "field_2LookupId"))

RefersTo(listName, record) ==
  IF listName = "Access Cards" THEN HasLookupId(record, "EmployeeLookupId") ELSE HasAssignee(record)

\* `[ID: n]` for the lookup id of the record
PlaceholderOf(listName, record) ==
  IF listName = "Access Cards"
  THEN Placeholder(NumToChars(LookupIdOf(listName, record)))
  ELSE Placeholder(LookupIdOf(listName, record))

\* the name the record carries inline: the expanded Employee / field_2 mapping
InlineOf(listName, record) ==
  LET f == Get(record, IF listName = "Access Cards" THEN "Employee" ELSE "field_2") IN
  IF f.t = "object"
  THEN Or(Or(Or(Get(f.kv, "displayName"), Get(f.kv, "Title")), Get(f.kv, "userPrincipalName")),
          Get(f.kv, "email"))
  ELSE JUndef

\* the name the caller-supplied cache holds for the lookup id of the record
CacheOf(listName, record) ==
  IF listName = "Access Cards"
  THEN CachedEmployeeName(op.cached, LookupIdOf(listName, record))
  ELSE CachedUserName(op.cached, LookupIdOf(listName, record))

\* no tier gave a name for the lookup id of the record: no inline mapping, no
\* match in the cache, and no name from a remote fetch
NoTierResolved(listName, record) ==
  /\ RefersTo(listName, record)
  /\ ~Truthy(InlineOf(listName, record))
  /\ ~Truthy(CacheOf(listName, record))
  /\ LookupIdOf(listName, record) \notin DOMAIN hist.names

ShortField(listName) == IF listName = "Access Cards" THEN "Employee" ELSE "Assignee"

NameField(listName) == IF listName = "Access Cards" THEN "EmployeeName" ELSE "AssigneeName"

\* C11: a record of 'Access Cards' or 'Assets' whose lookup id n no tier
\* resolved (no inline mapping, no match in the cache, no name from a remote
\* fetch) is returned by getRecords with Employee / Assignee equal to
\* '[ID: n]'.
C11_Placeholder ==
  \A n \in {"Access Cards", "Assets"} :
    Fetched(n) =>
      \A i \in 1..Len(hist.pages[1]) :
        LET record == Fields(hist.pages[1][i]) IN
        NoTierResolved(n, record) =>
          \A k \in RecordsOf(hist.pages[1][i]) :
            Get(result.val[k], ShortField(n)) = PlaceholderOf(n, record)

\* the same for the records of a fetch whose resolver went through its ids
PlaceholderWhenTried ==
  \A n \in {"Access Cards", "Assets"} :
    Fetched(n) /\ hist.ids # <<>> =>
      \A i \in 1..Len(hist.pages[1]) :
        LET record == Fields(hist.pages[1][i]) IN
        NoTierResolved(n, record) =>
          \A k \in RecordsOf(hist.pages[1][i]) :
            Get(result.val[k], ShortField(n)) = PlaceholderOf(n, record)

\* the record is resolved: Employee / Assignee holds a name and EmployeeName /
\* AssigneeName the same name, or Employee / Assignee holds the placeholder
IsResolved(listName, record) ==
  LET short == Get(record, ShortField(listName)) IN
  \/ short.t = "string" /\ Get(record, NameField(listName)) = short
  \/ short = PlaceholderOf(listName, record)

\* C12: every record getRecords('Access Cards') or getRecords('Assets')
\* returns with a lookup id has Employee / Assignee set to a name, with
\* EmployeeName / AssigneeName the same, or to the placeholder '[ID: <id>]',
\* on every resolution path.
C12_ResolutionInvariant ==
  \A n \in {"Access Cards", "Assets"} :
    Fetched(n) =>
      \A k \in 1..Len(result.val) :
        RefersTo(n, result.val[k]) => IsResolved(n, result.val[k])

\* the same for the fetches whose resolver went through its ids
ResolvedWhenTried ==
  \A n \in {"Access Cards", "Assets"} :
    Fetched(n) /\ hist.ids # <<>> =>
      \A k \in 1..Len(result.val) :
        RefersTo(n, result.val[k]) => IsResolved(n, result.val[k])

\* the id a request of the resolver asks for: .../items/{id} or users/{id}
LookupRequestId(path) == path[Len(path)]

\* the list an item request of the resolver goes to
LookupRequestList(path) == path[4]

\* the ids of the server's lists of a name
ListIdsNamed(name) == {srvLists[i].id : i \in {j \in 1..Len(srvLists) : NameMatches(srvLists[j], name)}}

\* an earlier tier has a name for the lookup id: a record of the fetch that
\* refers to it carries an inline mapping, or the cache matches it
EarlierTier(listName, id) ==
  \E i \in 1..Len(hist.pages[1]) :
    LET record == Fields(hist.pages[1][i]) IN
    /\ RefersTo(listName, record)
    /\ LookupIdOf(listName, record) = id
    /\ Truthy(InlineOf(listName, record)) \/ Truthy(CacheOf(listName, record))

\* the cache tier alone
CacheTier(listName, id) ==
  \E i \in 1..Len(hist.pages[1]) :
    LET record == Fields(hist.pages[1][i]) IN
    /\ RefersTo(listName, record)
    /\ LookupIdOf(listName, record) = id
    /\ Truthy(CacheOf(listName, record))

\* positive integer for employee items, GUID-shaped string for users
PlausibleId(listName, id) == IF listName = "Access Cards" THEN id > 0 ELSE IsGuidFormat(id)

\* for every id, the request to 'Employees' comes before the one to 'Access Cards'
EmployeesFirst ==
  \A i, j \in 1..Len(hist.lookups) :
    /\ LookupRequestList(hist.lookups[i]) \in ListIdsNamed("Access Cards")
    /\ LookupRequestList(hist.lookups[j]) \in ListIdsNamed("Employees")
    /\ LookupRequestId(hist.lookups[i]) = LookupRequestId(hist.lookups[j])
    => j < i

\* C13: while getRecords('Access Cards') or getRecords('Assets') resolves
\* references, no item or user request asks for an id an earlier tier (inline
\* mapping, cache) has a name for, every such request asks for an id of
\* plausible shape, and an id is asked for from 'Employees' before it is
\* asked for from 'Access Cards'.
C13_TierOrder ==
  \A n \in {"Access Cards", "Assets"} :
    op.name = "getRecords" /\ op.listName = n /\ hist.pages # <<>> =>
      /\ \A j \in 1..Len(hist.lookups) :
           /\ ~EarlierTier(n, LookupRequestId(hist.lookups[j]))
           /\ PlausibleId(n, LookupRequestId(hist.lookups[j]))
      /\ n = "Access Cards" => EmployeesFirst

\* the same with the cache as the only earlier tier
TierOrderAfterCache ==
  \A n \in {"Access Cards", "Assets"} :
    op.name = "getRecords" /\ op.listName = n /\ hist.pages # <<>> =>
      /\ \A j \in 1..Len(hist.lookups) :
           /\ ~CacheTier(n, LookupRequestId(hist.lookups[j]))
           /\ PlausibleId(n, LookupRequestId(hist.lookups[j]))
      /\ n = "Access Cards" => EmployeesFirst

----------------------------------------------------------------------------
(* Properties of the failures of reference resolution                      *)

\* getRecords(listName) has settled after its item listing arrived
SettledAfterListing(listName) ==
  pc = "idle" /\ op.name = "getRecords" /\ op.listName = listName /\ hist.pages # <<>>

\* the result holds one record per item of the listing's response, in order
CompleteRecordSet ==
  /\ Len(result.val) = Len(hist.pages[1])
  /\ \A i \in 1..Len(hist.pages[1]) : Get(result.val[i], "Id") = hist.pages[1][i].id

\* the resolver that went through the ids had a name for the record: from the
\* cache, from a lookup that succeeded or, for 'Assets', from the inline mapping
SomeTierResolved(listName, record) ==
  \/ listName = "Assets" /\ Truthy(InlineOf(listName, record))
  \/ Truthy(CacheOf(listName, record))
  \/ LookupIdOf(listName, record) \in DOMAIN hist.names

HasName(listName, record) ==
  LET short == Get(record, ShortField(listName)) IN
  /\ short.t = "string"
  /\ short # PlaceholderOf(listName, record)
  /\ Get(record, NameField(listName)) = short

\* C14: once its item listing has arrived, getRecords('Access Cards') and
\* getRecords('Assets') never reject: they resolve to one record per item of
\* the listing, in order, whatever request of the resolution failed; and when
\* the resolver went through the ids, a record whose id the cache or a lookup
\* that succeeded resolved carries the name, and a record whose lookup failed
\* or gave no name carries the placeholder.
C14_ResolutionFailuresSwallowed ==
  \A n \in {"Access Cards", "Assets"} :
    SettledAfterListing(n) =>
      /\ result.ok
      /\ CompleteRecordSet
      /\ hist.ids # <<>> =>
           \A k \in 1..Len(result.val) :
             LET record == Fields(hist.pages[1][k]) IN
             RefersTo(n, record) =>
               IF SomeTierResolved(n, record)
               THEN HasName(n, result.val[k])
               ELSE Get(result.val[k], ShortField(n)) = PlaceholderOf(n, record)

\* getRecords('Assets') has returned both records although the user request
\* failed: the one the cache resolved with its name, the other with the
\* placeholder
C14_Witness ==
  /\ SettledAfterListing("Assets")
  /\ result.ok
  /\ Len(hist.lookups) = 1
  /\ hist.thrown # <<>>
  /\ Len(result.val) = 2
  /\ HasName("Assets", result.val[1])
  /\ Get(result.val[2], "Assignee") = PlaceholderOf("Assets", result.val[2])

----------------------------------------------------------------------------
(* Properties of the directory operations                                  *)

\* the users of pages 1..n as getAllUsers returns them, in page order
RECURSIVE UsersOfPages(_)
UsersOfPages(n) ==
  IF n = 0 THEN <<>>
  ELSE UsersOfPages(n - 1) \o [i \in 1..Len(UsersOfPage(n)) |-> MapUser(UsersOfPage(n)[i])]

\* C15: getAllUsers never sends more than 50 requests; when no request
\* failed it resolves to the users of the pages it requested, concatenated in
\* page order, and it has requested every linked page of the listing or
\* stopped at the 50th.
C15_Pagination ==
  op.name = "getAllUsers" =>
    /\ Len(hist.reqs) <= MaxPages
    /\ \A i \in 1..Len(hist.reqs) : hist.reqs[i] = "users"
    /\ pc = "idle" /\ hist.thrown = <<>> =>
         /\ result.ok
         /\ result.val = UsersOfPages(Len(hist.reqs))
         /\ ~hist.more \/ Len(hist.reqs) = MaxPages

\* getAllUsers has stopped after the 50th request although the 50th page
\* carried a link to the next
C15_Witness ==
  /\ op.name = "getAllUsers"
  /\ pc = "idle"
  /\ hist.thrown = <<>>
  /\ Len(hist.reqs) = MaxPages
  /\ hist.more
  /\ Len(result.val) = MaxPages
  /\ result.val[1].id = 1 /\ result.val[MaxPages].id = MaxPages

\* what a best-effort operation resolves to when a request of it has failed
Downgraded(name) == IF name = "isCurrentUserAdmin" THEN NotAdmin ELSE <<>>

\* C16: isCurrentUserAdmin, getAllUsers and getAdminUsers never reject; when
\* a request of theirs has failed, isCurrentUserAdmin resolves to
\* {isAdmin: false, roles: []} and the other two to the empty list, also when
\* pages fetched before the failure held users.
C16_BestEffort ==
  op.name \in BestEffortOps /\ pc = "idle" =>
    /\ result.ok
    /\ hist.thrown # <<>> => result.val = Downgraded(op.name)

\* getAllUsers has resolved to the empty list after its second request
\* failed, the first page having delivered a user
C16_Witness ==
  /\ op.name = "getAllUsers"
  /\ pc = "idle"
  /\ hist.reqs = <<"users", "users">>
  /\ Len(hist.thrown) = 1
  /\ result = [ok |-> TRUE, val |-> <<>>]

----------------------------------------------------------------------------
(* Properties of the mutations                                             *)

\* the requests of a kind the operation has sent
Sent(kind) == Cardinality({i \in 1..Len(hist.reqs) : hist.reqs[i] = kind})

\* the operation has resolved
Resolved(name) == op.name = name /\ pc = "idle" /\ result.ok

\* the request the operation waits for
InFlight(kind) == {r \in net : r.kind = kind}

\* the path of the fields of an item
FieldsPath(path, itemId) ==
  /\ Len(path) = 7
  /\ path[1] = "sites" /\ path[3] = "lists" /\ path[5] = "items"
  /\ path[6] = itemId /\ path[7] = "fields"

\* the entries of the mapping whose value is not undefined
Defined(fields) ==
  LET IsDefined(e) == e[2] # JUndef IN SelectSeq(fields, IsDefined)

\* updateRecord sends one PATCH to the fields of the item and no other mutation
OnePatch ==
  op.name = "updateRecord" =>
    /\ Sent("patch") <= 1
    /\ Sent("post") = 0 /\ Sent("delete") = 0
    /\ Resolved("updateRecord") => Sent("patch") = 1
    /\ \A r \in InFlight("patch") : r.method = "PATCH" /\ FieldsPath(r.path, op.itemId)

ItemsPath(path) ==
  /\ Len(path) = 5
  /\ path[1] = "sites" /\ path[3] = "lists" /\ path[5] = "items"

\* insertRecord sends one POST to the items of the list and no other mutation
OnePost ==
  op.name = "insertRecord" =>
    /\ Sent("post") <= 1
    /\ Sent("patch") = 0 /\ Sent("delete") = 0
    /\ Resolved("insertRecord") => Sent("post") = 1
    /\ \A r \in InFlight("post") :
         /\ r.method = "POST"
         /\ ItemsPath(r.path)
         /\ r.body = [fields |-> JObj(Defined(op.fields))]

\* the step that hands the response of the POST to the caller of insertRecord
InsertReturns ==
  pc = "op_response" /\ op.name = "insertRecord" =>
    /\ pc' = "idle"
    /\ result'.ok
    /\ result'.val.d.id = ret.id
    /\ result'.val.d.fields = (IF ret.fields.t = "object" THEN ret.fields ELSE JObj(<<>>))

ItemPath(path, itemId) ==
  /\ Len(path) = 6
  /\ path[1] = "sites" /\ path[3] = "lists" /\ path[5] = "items"
  /\ path[6] = itemId

\* deleteRecord sends one DELETE for the item and no other mutation
OneDelete ==
  op.name = "deleteRecord" =>
    /\ Sent("delete") <= 1
    /\ Sent("patch") = 0 /\ Sent("post") = 0
    /\ Resolved("deleteRecord") => Sent("delete") = 1 /\ result.val = "undefined"
    /\ \A r \in InFlight("delete") : r.method = "DELETE" /\ ItemPath(r.path, op.itemId)

\* the errors of a request the server did not accept, and of a missing token
IsRefusal(e) == e \in {HttpError(response) : response \in Refusals} \/ e = NotAuthenticated

\* C19: deleteRecord sends exactly one DELETE for the item; it rejects only
\* when the list or the site cannot be resolved or a request is answered with
\* a non-success status, so a DELETE the server accepts, with or without a
\* response body, never makes it reject.
C19_DeleteCompletes ==
  /\ OneDelete
  /\ op.name = "deleteRecord" /\ pc = "idle" /\ ~result.ok =>
       \/ IsRefusal(result.err)
       \/ result.err.kind = "Error" /\ Sent("delete") = 0

\* deleteRecord has rejected although the server accepted the DELETE: the
\* answer had no body to parse
DeleteRejectedOnSuccess ==
  /\ op.name = "deleteRecord"
  /\ pc = "idle"
  /\ ~result.ok
  /\ result.err = JsonError
  /\ hist.reqs[Len(hist.reqs)] = "delete"

\* a rejection of deleteRecord is a refusal, an unresolved id, or the parse
\* error of an accepted DELETE without a body
DeleteRejections ==
  op.name = "deleteRecord" /\ pc = "idle" /\ ~result.ok =>
    \/ IsRefusal(result.err)
    \/ result.err.kind = "Error" /\ Sent("delete") = 0
    \/ DeleteRejectedOnSuccess

Mutations == {"insertRecord", "updateRecord", "deleteRecord"}

MutationKinds == {"post", "patch", "delete"}

\* the mutation request, if the operation sends one, is its last request
MutationLast ==
  /\ Sent("post") + Sent("patch") + Sent("delete") <= 1
  /\ \A i \in 1..(Len(hist.reqs) - 1) : hist.reqs[i] \notin MutationKinds

\* C20: insertRecord, updateRecord and deleteRecord neither retry nor
\* swallow: as soon as a request of theirs (for the site id, for the list id,
\* the mutation itself) is answered with a non-success status, the operation
\* rejects with an error that carries the status and the body text of that
\* response and sends nothing more; and when the list or the site could not
\* be resolved, no mutation request has been sent.
C20_MutationsPropagate ==
  op.name \in Mutations =>
    /\ MutationLast
    /\ hist.refused # <<>> =>
         /\ pc = "idle"
         /\ ~result.ok
         /\ Len(hist.refused) = 1
         /\ result.err.kind = "Error"
         /\ result.err.status = hist.refused[1].status
         /\ result.err.text = hist.refused[1].text
    /\ pc = "idle" /\ ~result.ok /\ hist.reqs # <<>> /\ hist.reqs[Len(hist.reqs)] \notin MutationKinds =>
         Sent("post") + Sent("patch") + Sent("delete") = 0

\* updateRecord has rejected with the 403 the list enumeration was answered
\* with, and no PATCH was sent
C20_Witness ==
  /\ op.name = "updateRecord"
  /\ pc = "idle"
  /\ hist.reqs = <<"site", "lists">>
  /\ hist.refused = <<[status |-> 403, text |-> "accessDenied"]>>
  /\ result = [ok |-> FALSE, err |-> HttpError([status |-> 403, text |-> "accessDenied"])]

----------------------------------------------------------------------------
(* Properties of the session: logout and failed authentication             *)

\* the step is a call of setAccessToken(''): the logout
LogoutStep == accessToken # "" /\ accessToken' = "" /\ authPc' = authPc /\ pc' = pc

\* C21: setAccessToken('') changes the token alone, siteId and listIdCache
\* stay as they are; and the first operation after the token has been set
\* again takes the site id and the list ids that were memoized from the
\* service, without a request that resolves them.
C21_LogoutKeepsIds ==
  /\ [][LogoutStep => siteId' = siteId /\ listIdCache' = listIdCache]_vars
  /\ [][hist.relogin = "out" /\ accessToken' # accessToken /\ ~authResult'.ok =>
          siteId' = siteId /\ listIdCache' = listIdCache]_vars
  /\ [][hist.relogin = "in" /\ pc = "gs" => pc' # "mgr" /\ ret' = siteId]_vars
  /\ [][hist.relogin = "in" /\ pc = "gl" /\ arg \in DOMAIN listIdCache =>
          pc' # "gs" /\ ret' = listIdCache[arg]]_vars
  /\ [](hist.relogin = "in" => siteId \notin {Null, ""} /\ listIdCache # EmptyMap)

\* after a logout and setAccessToken('tokA'), getList('Assets') has resolved
\* with the one request for the list: the ids came from the service
C21_Witness ==
  /\ hist.relogin = "in"
  /\ accessToken = "tokA"
  /\ op.name = "getList" /\ op.listName = "Assets"
  /\ pc = "idle" /\ result.ok
  /\ hist.reqs = <<"list">>
  /\ hist.glDone.entry = "hit"

\* the step is one of authenticate(): it moves on, or it settles
AuthStep == authPc' # authPc \/ authResult' # NoAuthEvent

\* the step settles authenticate() with a failure
AuthFails == AuthStep /\ authPc' = "idle" /\ ~authResult'.ok

\* C22: authenticate() settles with the token or with an error that carries
\* a message; the step that makes it fail, whatever the outcome it fails on,
\* leaves accessToken, siteId and listIdCache as they were, and so does every
\* step before it.
C22_FailedAuthKeepsSession ==
  /\ [][AuthFails => /\ authResult'.msg \notin {"", "none"}
                     /\ accessToken' = accessToken
                     /\ siteId' = siteId
                     /\ listIdCache' = listIdCache]_vars
  /\ [][AuthStep /\ authPc' # "idle" =>
          accessToken' = accessToken /\ siteId' = siteId /\ listIdCache' = listIdCache]_vars
  /\ [][authPc # "idle" /\ authPc' = "idle" => authResult'.ok \/ AuthFails]_vars

\* the token exchange has returned no access token in a session that holds
\* a token and memoized ids: authenticate() has failed, the session is as it was
C22_Witness ==
  /\ authResult = [ok |-> FALSE, msg |-> "Access token not received from token exchange"]
  /\ accessToken = "tokA"
  /\ siteId = "site-1"
  /\ listIdCache # EmptyMap
-----------------------------------------------------------------------------
(* The App component (src/unnamed/part_001) over the service: its React    *)
(* state, the login screen's connect handler, the logout alert and the     *)
(* stack navigator.  The service calls the App makes are taken by their    *)
(* outcome: authenticate() resolves with the token of a session or         *)
(* rejects, getCurrentUserWithAdminStatus() resolves with the user of the  *)
(* token its two requests were sent with, or rejects.                      *)

\* the sessions a token exchange can open, and who signed in
Sessions == {"tokA", "tokB"}
UserOf(t) == IF t = "tokA" THEN "userA" ELSE "userB"
\* whether me/memberOf lists an administrator role for the user
AdminOf(t) == t = "tokA"

\* calls of loadUserInfo that can be awaiting the service at one time
LoadSlots == {"l1", "l2"}
FreeSlot == "free"

\* the lists Home opens: the two quick access buttons and "View All"
HomeLists == {"Assets", "Access Cards", "Employees"}

\* records a list screen shows: list items as getRecords maps them, and,
\* for Employees, a directory user as fetchEmployees maps it
AssetRecord == [Id |-> "1", Title |-> "Laptop"]
CardRecord == [Id |-> "9", Title |-> "Card A", AccessCardNo |-> "AC-9"]
EmployeeItem == [Id |-> "7", Title |-> "Jane Doe"]
DirectoryUser == [Id |-> "u1", Title |-> "Jane Doe", Mail |-> "jane@x.org", UserPrincipalName |-> "jane@x.org"]
NoRecord == [Id |-> ""]

RecordsShown(listName) ==
  IF listName = "Assets" THEN {AssetRecord}
  ELSE IF listName = "Access Cards" THEN {CardRecord}
  ELSE {EmployeeItem, DirectoryUser}

\* record[k] is truthy: the key is there and its string is not empty
HasValue(record, k) == k \in DOMAIN record /\ record[k] # ""

\* a classification by the principal name alone
IsOrganizationUser_ByPrincipalName(listName, record) ==
  listName = "Employees" /\ HasValue(record, "UserPrincipalName")

\* RecordView.isOrganizationUser
IsOrganizationUser(listName, record) ==
  /\ listName = "Employees"
  /\ \/ HasValue(record, "UserPrincipalName")
     \/ /\ HasValue(record, "Mail")
        /\ "AccessCardNo" \notin DOMAIN record
        /\ "AssetId" \notin DOMAIN record

\* The controls each screen renders.  The list screen's "+ Add" button and
\* the delete icon of its cards, the record view's delete icon and its
\* "Edit Record" button are inside JSX comments: they are not rendered.
LoginControls(isConnecting) == IF isConnecting THEN {} ELSE {"connect"}
HomeControls == {"viewAll", "Assets", "Access Cards", "logout"}
ListControls(shown) == {"back"} \cup (IF shown THEN {"record", "pullToRefresh"} ELSE {})
DetailControls(isEditing) == {"back"} \cup (IF isEditing THEN {"cancel", "save"} ELSE {})
CreateControls == {"back", "insert"}

AppInitUi ==
  [ view |-> "App",
    isAuthenticated |-> FALSE,
    currentUser |-> Null,
    isAdmin |-> FALSE,
    loadingUserInfo |-> FALSE,
    isConnecting |-> FALSE,        \* LoginScreen
    alert |-> "none",              \* the Alert on display
    route |-> <<"Login">>,         \* the navigator's stack
    listName |-> "",               \* route.params.listName
    record |-> NoRecord,           \* route.params.record
    loads |-> [s \in LoadSlots |-> FreeSlot] ]  \* token of each loadUserInfo awaiting

Top == ui.route[Len(ui.route)]

\* the controls on the screen, none while an Alert covers it
Controls ==
  IF ui.alert # "none" THEN {}
  ELSE IF Top = "Login" THEN LoginControls(ui.isConnecting)
  ELSE IF Top = "Home" THEN HomeControls
  ELSE IF Top = "List" THEN ListControls(TRUE)
  ELSE IF Top = "Detail" THEN DetailControls(FALSE)
  ELSE CreateControls

\* everything of the service but the session fields
appFixed == <<clientId, tenantId, srvLists, screen, authPc, authResult, op, pc, stack, arg, ret, loc, net, result, hist>>

\* App's mount effect reads getAccessToken(): null on the service just
\* constructed, so neither setIsAuthenticated nor loadUserInfo runs.
AppInit ==
  /\ \E w \in {x \in Worlds : x.screen = "lists" /\ x.clientId = "client-1"} :
       /\ clientId = w.clientId
       /\ tenantId = w.tenantId
       /\ srvLists = w.srvLists
       /\ screen = w.screen
  /\ accessToken = Null
  /\ siteId = Null
  /\ listIdCache = EmptyMap
  /\ authPc = "idle"
  /\ authResult = NoAuthEvent
  /\ op = NoOp
  /\ pc = "idle"
  /\ stack = <<>>
  /\ arg = "none"
  /\ ret = "none"
  /\ loc = LocInit
  /\ net = {}
  /\ result = Pending
  /\ hist = HistInit
  /\ ui = AppInitUi

\* LoginScreen.handleConnect up to its await
Connect ==
  /\ "connect" \in Controls
  /\ ui' = [ui EXCEPT !.isConnecting = TRUE]
  /\ UNCHANGED <<svcVars, appFixed>>

\* loadUserInfo up to its await: the two requests leave with the token
StartLoad(u, t) ==
  IF \E s \in LoadSlots : u.loads[s] = FreeSlot
  THEN [u EXCEPT !.loadingUserInfo = TRUE,
                 !.loads[IF u.loads["l1"] = FreeSlot THEN "l1" ELSE "l2"] = t]
  ELSE u

\* App.handleLoginSuccess: setIsAuthenticated(true), then loadUserInfo()
HandleLoginSuccess(u, t) == [StartLoad(u, t) EXCEPT !.isAuthenticated = TRUE, !.route = <<"Home">>]

\* authenticate() resolved with the token t: the service holds the new
\* session (lines 1594-1596), handleConnect goes on with onLoginSuccess()
\* and its finally
ConnectResolved(t) ==
  /\ ui.isConnecting
  /\ \E s \in LoadSlots : ui.loads[s] = FreeSlot
  /\ accessToken' = t
  /\ siteId' = SiteIdAfterAuth(siteId)
  /\ listIdCache' = ListIdCacheAfterAuth(listIdCache)
  /\ ui' = [HandleLoginSuccess(ui, t) EXCEPT !.isConnecting = FALSE]
  /\ UNCHANGED appFixed

\* authenticate() rejected: the alert, then the finally
ConnectRejected ==
  /\ ui.isConnecting
  /\ ui' = [ui EXCEPT !.isConnecting = FALSE, !.alert = "error"]
  /\ UNCHANGED <<svcVars, appFixed>>

DismissError ==
  /\ ui.alert = "error"
  /\ ui' = [ui EXCEPT !.alert = "none"]
  /\ UNCHANGED <<svcVars, appFixed>>

\* loadUserInfo after its await, the call resolved: setCurrentUser,
\* setIsAdmin, and the finally
LoadResolved(s, admin) ==
  /\ ui.loads[s] # FreeSlot
  /\ ui' = [ui EXCEPT !.currentUser = UserOf(ui.loads[s]),
                      !.isAdmin = admin,
                      !.loadingUserInfo = FALSE,
                      !.loads[s] = FreeSlot]
  /\ UNCHANGED <<svcVars, appFixed>>

\* loadUserInfo after its await, the call rejected: the catch logs, the
\* finally runs
LoadRejected(s) ==
  /\ ui.loads[s] # FreeSlot
  /\ ui' = [ui EXCEPT !.loadingUserInfo = FALSE, !.loads[s] = FreeSlot]
  /\ UNCHANGED <<svcVars, appFixed>>

\* App.handleLogout: the confirmation alert
PressLogout ==
  /\ "logout" \in Controls
  /\ ui' = [ui EXCEPT !.alert = "logout"]
  /\ UNCHANGED <<svcVars, appFixed>>

CancelLogout ==
  /\ ui.alert = "logout"
  /\ ui' = [ui EXCEPT !.alert = "none"]
  /\ UNCHANGED <<svcVars, appFixed>>

\* a logout that leaves the token with the service
LogoutToken_Kept(t) == t

\* what setAccessToken('') of the Logout button leaves in the service
LogoutToken(t) == ""

\* the alert's Logout button
ConfirmLogout ==
  /\ ui.alert = "logout"
  /\ accessToken' = LogoutToken(accessToken)
  /\ ui' = [ui EXCEPT !.alert = "none",
                      !.isAuthenticated = FALSE,
                      !.currentUser = Null,
                      !.isAdmin = FALSE,
                      !.route = <<"Login">>,
                      !.listName = "",
                      !.record = NoRecord]
  /\ UNCHANGED <<siteId, listIdCache, appFixed>>

\* Home: a quick access button, or "View All" for Employees
OpenList(listName) ==
  /\ (IF listName = "Employees" THEN "viewAll" ELSE listName) \in Controls
  /\ ui' = [ui EXCEPT !.route = Append(ui.route, "List"), !.listName = listName]
  /\ UNCHANGED <<svcVars, appFixed>>

\* ListScreen: a record card, onRecordPress
PressRecord(record) ==
  /\ Top = "List"
  /\ "record" \in Controls
  /\ ui' = [ui EXCEPT !.route = Append(ui.route, "Detail"), !.record = record]
  /\ UNCHANGED <<svcVars, appFixed>>

\* the back arrow of the list and detail screens: navigation.goBack()
GoBack ==
  /\ "back" \in Controls
  /\ ui' = [ui EXCEPT !.route = SubSeq(ui.route, 1, Len(ui.route) - 1),
                      !.record = NoRecord,
                      !.listName = IF Top = "List" THEN "" ELSE ui.listName]
  /\ UNCHANGED <<svcVars, appFixed>>

AppNext ==
  \/ Connect
  \/ \E t \in Sessions : ConnectResolved(t)
  \/ ConnectRejected
  \/ DismissError
  \/ \E s \in LoadSlots : \E admin \in {AdminOf(ui.loads[s]), FALSE} : LoadResolved(s, admin)
  \/ \E s \in LoadSlots : LoadRejected(s)
  \/ PressLogout
  \/ CancelLogout
  \/ ConfirmLogout
  \/ \E listName \in HomeLists : OpenList(listName)
  \/ \E record \in RecordsShown(ui.listName) : PressRecord(record)
  \/ GoBack

SpecApp == AppInit /\ [][AppNext]_vars

-----------------------------------------------------------------------------
(* Claims about the App.                                                   *)

OnList == ui.isAuthenticated /\ Top = "List"
OnDetail == ui.isAuthenticated /\ Top = "Detail"

\* C23: from the authenticated Home screen each of the three mutations can
\* be reached by user actions: a list that takes new records offers its
\* create entry, which leads to insertRecord; the view of a record that is
\* no organization user offers editing, which leads to updateRecord, and
\* the record's card or its view offers deleting, which leads to
\* deleteRecord.
C23_MutationsReachable ==
  /\ OnList /\ ui.listName # "Employees" => "create" \in Controls
  /\ OnDetail /\ ~IsOrganizationUser(ui.listName, ui.record) =>
       /\ "edit" \in Controls
       /\ "delete" \in Controls \/ "deleteCard" \in ListControls(TRUE)

\* The controls that start a mutation are on no screen the navigator shows.
NoMutationControl ==
  Controls \cap {"create", "edit", "delete", "deleteCard", "save", "insert"} = {}

\* C27: while isAuthenticated is true the service holds a non-empty
\* token; isAuthenticated turns true only in the step in which an
\* authenticate() call of the login screen resolves, and the logout clears
\* the token and isAuthenticated in one step.
C27_AuthenticatedHasToken ==
  /\ [](ui.isAuthenticated => accessToken \notin {Null, ""})
  /\ [][~ui.isAuthenticated /\ ui'.isAuthenticated =>
          ui.isConnecting /\ ~ui'.isConnecting /\ accessToken' \in Sessions]_vars
  /\ [][ui.isAuthenticated /\ ~ui'.isAuthenticated => accessToken' = ""]_vars
  /\ [][accessToken' = "" /\ accessToken # "" => ui.alert = "logout" /\ ~ui'.isAuthenticated]_vars

\* signed in again after a logout, the first session's user info still awaited
C27_Witness ==
  /\ ui.isAuthenticated
  /\ accessToken = "tokB"
  /\ ui.loads["l1"] = "tokA"
  /\ ui.loads["l2"] = "tokB"
  /\ Top = "Detail"

\* C28: while isAuthenticated is false, currentUser is null and isAdmin is
\* false, also when a loadUserInfo that started before the logout completes
\* after it; and the user shown in a later session is never the user of an
\* earlier one.
C28_NoUserOutsideSession ==
  /\ ~ui.isAuthenticated => ui.currentUser = Null /\ ~ui.isAdmin
  /\ ui.isAuthenticated /\ ui.currentUser # Null => ui.currentUser = UserOf(accessToken)

\* What the logout does hold at the step itself.
LogoutClearsUser ==
  [][ui.isAuthenticated /\ ~ui'.isAuthenticated => ui'.currentUser = Null /\ ~ui'.isAdmin]_vars

\* the user info of a session that ended is shown on the login screen
StaleUserShown ==
  /\ ~ui.isAuthenticated
  /\ ui.currentUser = "userA"
  /\ accessToken = ""

\* the user info of the first session is shown in the second
EarlierUserShown ==
  /\ ui.isAuthenticated
  /\ accessToken = "tokB"
  /\ ui.currentUser = "userA"

-----------------------------------------------------------------------------
(* The record's Id                                                         *)

\* the keys of the item's field container
FieldKeys(item) == {item.fields.kv[j][1] : j \in 1..Len(item.fields.kv)}

\* the i-th record of the result is made from the i-th item of the response
IdOfItem(i) == Get(result.val[i], "Id") = hist.pages[1][i].id

\* C24: the record getRecords makes from an item of the listing has Id
\* equal to item.id, whatever keys the item's field container holds.
C24_IdIsItemId ==
  \A n \in {"Access Cards", "Assets", "Employees"} :
    Fetched(n) =>
      /\ Len(result.val) = Len(hist.pages[1])
      /\ \A i \in 1..Len(hist.pages[1]) : IdOfItem(i)

\* What holds: Id is item.id for the items whose fields hold no key Id.
IdIsItemIdUnlessOwn ==
  \A n \in {"Access Cards", "Assets", "Employees"} :
    Fetched(n) =>
      /\ Len(result.val) = Len(hist.pages[1])
      /\ \A i \in 1..Len(hist.pages[1]) :
           IF "Id" \in FieldKeys(hist.pages[1][i])
           THEN Get(result.val[i], "Id") = Get(hist.pages[1][i].fields.kv, "Id")
           ELSE IdOfItem(i)

\* a record whose Id is the id of another item of the same listing
ForeignId ==
  /\ Fetched("Employees")
  /\ Len(result.val) = 2
  /\ Get(result.val[1], "Id") = hist.pages[1][2].id
  /\ Get(result.val[1], "Id") # hist.pages[1][1].id

-----------------------------------------------------------------------------
(* The memoized ids over a re-authentication                               *)

\* C29: the memoized siteId and the listIdCache entries are written from
\* requests issued under the session in force: a getSiteId or getListId
\* call whose request left before a successful authenticate() and whose
\* response arrives after it does not write its result into either.
C29_NoStaleCacheWrite ==
  /\ [][siteId' # siteId /\ siteId' # Null => ~hist.overtaken]_vars
  /\ [][listIdCache' # listIdCache /\ listIdCache' # EmptyMap => ~hist.overtaken]_vars

\* What holds: without an authentication in between, the ids are written
\* from the response to the request the call itself sent.
CacheWritesOwnResponse ==
  /\ [][siteId' # siteId /\ siteId' # Null => pc = "gs_data" /\ hist.reqs[Len(hist.reqs)] = "site"]_vars
  /\ [][listIdCache' # listIdCache /\ listIdCache' # EmptyMap => pc = "gl_lists" /\ hist.reqs[Len(hist.reqs)] = "lists"]_vars

\* the new session memoizes the site id a request of the old session brought
StaleSiteId ==
  /\ accessToken = "tokB"
  /\ hist.overtaken
  /\ siteId = "site-1"
  /\ hist.reqs = <<"site">>

\* the new session memoizes a list id a request of the old session brought
StaleListId ==
  /\ accessToken = "tokB"
  /\ hist.overtaken
  /\ listIdCache # EmptyMap
  /\ hist.reqs[Len(hist.reqs)] = "lists"

-----------------------------------------------------------------------------
(* ListScreen (src/screens/HomeScreen.tsx, lines 394-1080) on its own: the *)
(* component mounted by the navigator with a list name and the employees   *)
(* the App holds.  getRecords is taken by its outcome: it resolves with    *)
(* the items the server held when it answered, or rejects.                 *)

\* what a getRecords call can resolve with: no items, or the items of the
\* list before and after another user's change
ItemSets == {"empty", "v1", "v2"}
\* the employees of the App: none loaded, or the directory users
DirectoryEmployees == "directory"
\* messages a rejection can carry, '' for an error without one
LoadErrors == {"HTTP 404: itemNotFound", ""}
NoError == "<no error>"

\* calls of loadRecords that can be awaiting getRecords at one time
ListSlots == {"a", "b"}

Awaiting == "awaiting"
NotStarted == [state |-> "none", ok |-> FALSE, records |-> "empty", error |-> NoError]
Unfinished == [state |-> "awaiting", ok |-> FALSE, records |-> "empty", error |-> NoError]
Loaded(items) == [state |-> "done", ok |-> TRUE, records |-> items, error |-> NoError]
Failed(message) == [state |-> "done", ok |-> FALSE, records |-> "empty", error |-> message]

ListInitUi(listName, employees) ==
  [ view |-> "List",
    listName |-> listName,
    employees |-> employees,      \* the prop: "empty" or the directory users
    records |-> "empty",
    loading |-> FALSE,
    refreshing |-> FALSE,
    error |-> NoError,
    alert |-> FALSE,              \* an 'Error' Alert is on display
    focused |-> FALSE,            \* the focus effect has run for this focus
    refreshingEmployees |-> FALSE, \* handleRefresh awaits onRefreshEmployees
    loads |-> [s \in ListSlots |-> FreeSlot],
    latest |-> "none",            \* the slot of the load started last, "sync" for one that did not wait
    outcome |-> NotStarted ]      \* how the load started last ended

\* the branch of the render, lines 1010-1077
ListBody(u) ==
  IF u.loading /\ u.records = "empty" THEN "spinner"
  ELSE IF u.error # NoError THEN "error"
  ELSE IF u.records = "empty" THEN "none"
  ELSE "records"

ListScreenControls(u) ==
  IF u.alert THEN {}
  ELSE ListControls(ListBody(u) = "records") \cup (IF ListBody(u) = "error" THEN {"retry"} ELSE {})

\* error.message || 'Failed to load records'
ErrorMessage(message) == IF message = "" THEN "Failed to load records" ELSE message

\* a screen that forgets its refresh indicator
LoadSettled_KeepsRefreshing(u) == [u EXCEPT !.loading = FALSE]

\* the finally of loadRecords
LoadSettled(u) == [u EXCEPT !.loading = FALSE, !.refreshing = FALSE]

\* loadRecords up to its await; for Employees with employees loaded there
\* is none and the call runs to its end
LoadRecords(u) ==
  LET v == [u EXCEPT !.loading = TRUE, !.error = NoError] IN
  IF v.listName = "Employees" /\ v.employees # "empty"
  THEN [LoadSettled([v EXCEPT !.records = v.employees]) EXCEPT !.latest = "sync", !.outcome = Loaded(v.employees)]
  ELSE LET s == IF v.loads["a"] = FreeSlot THEN "a" ELSE "b" IN
       [v EXCEPT !.loads[s] = Awaiting, !.latest = s, !.outcome = Unfinished]

CanStart(u) == (u.listName = "Employees" /\ u.employees # "empty") \/ \E s \in ListSlots : u.loads[s] = FreeSlot

listFixed == <<svcVars, clientId, tenantId, srvLists, screen, authPc, authResult, op, pc, stack, arg, ret, loc, net, result, hist>>

ListInit ==
  /\ \E w \in {x \in Worlds : x.screen = "lists" /\ x.clientId = "client-1"} :
       /\ clientId = w.clientId
       /\ tenantId = w.tenantId
       /\ srvLists = w.srvLists
       /\ screen = w.screen
  /\ accessToken = "tokA"
  /\ siteId = Null
  /\ listIdCache = EmptyMap
  /\ authPc = "idle"
  /\ authResult = NoAuthEvent
  /\ op = NoOp
  /\ pc = "idle"
  /\ stack = <<>>
  /\ arg = "none"
  /\ ret = "none"
  /\ loc = LocInit
  /\ net = {}
  /\ result = Pending
  /\ hist = HistInit
  /\ \E listName \in {"Assets", "Employees"}, employees \in {"empty", DirectoryEmployees} :
       ui = ListInitUi(listName, employees)

\* useFocusEffect: the screen comes into focus, on mount and on the way
\* back from the detail screen
FocusEffect ==
  /\ ~ui.focused
  /\ CanStart(ui)
  /\ ui' = [LoadRecords(ui) EXCEPT !.focused = TRUE]
  /\ UNCHANGED listFixed

\* a record card: the detail screen covers the list
LeaveForDetail ==
  /\ ui.focused
  /\ "record" \in ListScreenControls(ui)
  /\ ui' = [ui EXCEPT !.focused = FALSE]
  /\ UNCHANGED listFixed

\* the employees prop changes while the list is in focus (Home's
\* fetchEmployees resolves): the effect's callback is a new one and runs
EmployeesArrive ==
  /\ ui.focused
  /\ ui.employees = "empty"
  /\ ~ui.refreshingEmployees
  /\ ui' = LoadRecords([ui EXCEPT !.employees = DirectoryEmployees])
  /\ UNCHANGED listFixed

\* handleRefresh: pull to refresh
HandleRefresh ==
  /\ ui.focused
  /\ "pullToRefresh" \in ListScreenControls(ui)
  /\ ~ui.refreshingEmployees
  /\ CanStart(ui)
  /\ LET u == [ui EXCEPT !.refreshing = TRUE] IN
     ui' = IF u.listName = "Employees"
           THEN [u EXCEPT !.refreshingEmployees = TRUE]
           ELSE LoadRecords(u)
  /\ UNCHANGED listFixed

\* handleRefresh after onRefreshEmployees: getAllUsers resolved with users,
\* which the App stores, or with none.  handleRefresh goes on with the
\* loadRecords of the render it was called in, which still sees the
\* employees of that render; the new employees prop then makes the focus
\* effect run, if the list is in focus
EmployeesRefreshed(users) ==
  /\ ui.refreshingEmployees
  /\ LET first == LoadRecords([ui EXCEPT !.refreshingEmployees = FALSE])
         shown == [first EXCEPT !.employees = users] IN
     /\ CanStart(ui)
     /\ CanStart(shown)
     /\ ui' = IF ui.focused THEN LoadRecords(shown) ELSE shown
  /\ UNCHANGED listFixed

\* the Retry button of the error view
Retry ==
  /\ "retry" \in ListScreenControls(ui)
  /\ CanStart(ui)
  /\ ui' = LoadRecords(ui)
  /\ UNCHANGED listFixed

\* loadRecords after its await, getRecords resolved: setRecords, finally
RecordsLoaded(s, items) ==
  /\ ui.loads[s] = Awaiting
  /\ ui' = [LoadSettled([ui EXCEPT !.records = items]) EXCEPT
              !.loads[s] = FreeSlot,
              !.outcome = IF ui.latest = s THEN Loaded(items) ELSE @]
  /\ UNCHANGED listFixed

\* loadRecords after its await, getRecords rejected: setError, the alert,
\* finally
RecordsFailed(s, message) ==
  /\ ui.loads[s] = Awaiting
  /\ ui' = [LoadSettled([ui EXCEPT !.error = ErrorMessage(message), !.alert = TRUE]) EXCEPT
              !.loads[s] = FreeSlot,
              !.outcome = IF ui.latest = s THEN Failed(ErrorMessage(message)) ELSE @]
  /\ UNCHANGED listFixed

DismissAlert ==
  /\ ui.alert
  /\ ui' = [ui EXCEPT !.alert = FALSE]
  /\ UNCHANGED listFixed

ListNext ==
  \/ FocusEffect
  \/ LeaveForDetail
  \/ EmployeesArrive
  \/ HandleRefresh
  \/ \E users \in {"empty", DirectoryEmployees} : EmployeesRefreshed(users)
  \/ Retry
  \/ \E s \in ListSlots, items \in ItemSets : RecordsLoaded(s, items)
  \/ \E s \in ListSlots, message \in LoadErrors : RecordsFailed(s, message)
  \/ DismissAlert

SpecList == ListInit /\ [][ListNext]_vars

\* no loadRecords call is awaiting, and one was made
AllLoadsCompleted ==
  /\ ui.latest # "none"
  /\ \A s \in ListSlots : ui.loads[s] = FreeSlot
  /\ ~ui.refreshingEmployees

\* C30: when overlapping loadRecords calls have all completed, the records
\* shown and the error are those of the load that was started last, and
\* loading and refreshing are both false.
C30_LatestLoadWins ==
  AllLoadsCompleted =>
    /\ ~ui.loading
    /\ ~ui.refreshing
    /\ ui.error = ui.outcome.error
    /\ ui.outcome.ok => ui.records = ui.outcome.records

\* What holds: with every load completed neither indicator is left on.
IndicatorsSettle == AllLoadsCompleted => ~ui.loading /\ ~ui.refreshing

\* the load started last brought v2, the screen shows v1
OlderRecordsShown ==
  /\ AllLoadsCompleted
  /\ ui.outcome = Loaded("v2")
  /\ ui.records = "v1"
  /\ ui.error = NoError

\* the load started last succeeded, the screen shows an earlier load's error
EarlierErrorShown ==
  /\ AllLoadsCompleted
  /\ ~ui.alert
  /\ ui.outcome = Loaded("v2")
  /\ ui.records = "v2"
  /\ ListBody(ui) = "error"

-----------------------------------------------------------------------------
(* RecordForm (src/components/RecordForm.tsx) on its own: the form's hooks *)
(* and its handlers.  insertRecord is taken by its outcome.                *)

\* what the user types: strings as their characters
Texts == { <<>>, <<" ">>, <<"a">>, <<" ", "a">> }
\* names the user gives a custom field, '' for none yet
CustomNames == {"", "Title", "Dept"}
\* rows of custom fields the form is let to hold here
CustomRows == {1, 2}

\* String.prototype.trim
RECURSIVE TrimStart(_)
TrimStart(cs) == IF cs # <<>> /\ IsSpace(Head(cs)) THEN TrimStart(Tail(cs)) ELSE cs
RECURSIVE TrimEnd(_)
TrimEnd(cs) == IF cs # <<>> /\ IsSpace(cs[Len(cs)]) THEN TrimEnd(SubSeq(cs, 1, Len(cs) - 1)) ELSE cs
Trim(cs) == TrimEnd(TrimStart(cs))

NoFields == [k \in {} |-> <<>>]

\* a validation that takes every typed text
Missing_OnlyUntyped(formData, name) == name \notin DOMAIN formData

\* !formData[name]?.trim(): the field was never typed in, or is blank
Missing(formData, name) == name \notin DOMAIN formData \/ Trim(formData[name]) = <<>>

\* lines 75-82: the form data, then every custom field with a name and a value
RECURSIVE WithCustomFields(_, _)
WithCustomFields(recordData, customFields) ==
  IF customFields = <<>> THEN recordData
  ELSE LET c == Head(customFields) IN
       WithCustomFields(IF c.name # "" /\ c.value # <<>>
                        THEN (c.name :> c.value) @@ recordData
                        ELSE recordData,
                        Tail(customFields))

RecordData(formData, customFields) == WithCustomFields(formData, customFields)

FormInitUi ==
  [ view |-> "Form",
    formData |-> NoFields,
    customFields |-> <<>>,
    loading |-> FALSE,
    alert |-> "none",          \* the Alert on display
    awaiting |-> FALSE,        \* handleSubmit awaits insertRecord
    sent |-> NoFields ]        \* the record of the insertRecord call awaited

FormInit ==
  /\ \E w \in {x \in Worlds : x.screen = "lists" /\ x.clientId = "client-1"} :
       /\ clientId = w.clientId
       /\ tenantId = w.tenantId
       /\ srvLists = w.srvLists
       /\ screen = w.screen
  /\ accessToken = "tokA"
  /\ siteId = Null
  /\ listIdCache = EmptyMap
  /\ authPc = "idle"
  /\ authResult = NoAuthEvent
  /\ op = NoOp
  /\ pc = "idle"
  /\ stack = <<>>
  /\ arg = "none"
  /\ ret = "none"
  /\ loc = LocInit
  /\ net = {}
  /\ result = Pending
  /\ hist = HistInit
  /\ ui = FormInitUi

\* the inputs take text while no Alert covers the form
FormOpen == ui.alert = "none"

HandleInputChange(value) ==
  /\ FormOpen
  /\ ui' = [ui EXCEPT !.formData = ("Title" :> value) @@ @]
  /\ UNCHANGED listFixed

AddCustomField ==
  /\ FormOpen
  /\ Len(ui.customFields) + 1 \in CustomRows
  /\ ui' = [ui EXCEPT !.customFields = Append(@, [name |-> "", value |-> <<>>])]
  /\ UNCHANGED listFixed

UpdateCustomFieldName(index, name) ==
  /\ FormOpen
  /\ index \in 1..Len(ui.customFields)
  /\ ui' = [ui EXCEPT !.customFields[index].name = name]
  /\ UNCHANGED listFixed

UpdateCustomFieldValue(index, value) ==
  /\ FormOpen
  /\ index \in 1..Len(ui.customFields)
  /\ ui' = [ui EXCEPT !.customFields[index].value = value]
  /\ UNCHANGED listFixed

RemoveCustomField(index) ==
  /\ FormOpen
  /\ index \in 1..Len(ui.customFields)
  /\ ui' = [ui EXCEPT !.customFields = SubSeq(@, 1, index - 1) \o SubSeq(@, index + 1, Len(@))]
  /\ UNCHANGED listFixed

\* handleSubmit up to its return or its await; the button is disabled
\* while loading
HandleSubmit ==
  /\ FormOpen
  /\ ~ui.loading
  /\ ui' = IF Missing(ui.formData, "Title")
           THEN [ui EXCEPT !.alert = "validation", !.loading = FALSE]
           ELSE [ui EXCEPT !.loading = TRUE,
                           !.awaiting = TRUE,
                           !.sent = RecordData(ui.formData, ui.customFields)]
  /\ UNCHANGED listFixed

\* handleSubmit after its await, insertRecord resolved
InsertResolved ==
  /\ ui.awaiting
  /\ ui' = [ui EXCEPT !.awaiting = FALSE, !.sent = NoFields, !.formData = NoFields,
                      !.customFields = <<>>, !.alert = "success", !.loading = FALSE]
  /\ UNCHANGED listFixed

\* handleSubmit after its await, insertRecord rejected
InsertRejected ==
  /\ ui.awaiting
  /\ ui' = [ui EXCEPT !.awaiting = FALSE, !.sent = NoFields, !.alert = "error", !.loading = FALSE]
  /\ UNCHANGED listFixed

DismissFormAlert ==
  /\ ui.alert # "none"
  /\ ui' = [ui EXCEPT !.alert = "none"]
  /\ UNCHANGED listFixed

FormNext ==
  \/ \E value \in Texts : HandleInputChange(value)
  \/ AddCustomField
  \/ \E index \in CustomRows, name \in CustomNames : UpdateCustomFieldName(index, name)
  \/ \E index \in CustomRows, value \in Texts : UpdateCustomFieldValue(index, value)
  \/ \E index \in CustomRows : RemoveCustomField(index)
  \/ HandleSubmit
  \/ InsertResolved
  \/ InsertRejected
  \/ DismissFormAlert

SpecForm == FormInit /\ [][FormNext]_vars

\* the record has a Title that is not blank
TitleGiven(recordData) == "Title" \in DOMAIN recordData /\ \E i \in 1..Len(recordData["Title"]) : recordData["Title"][i] # " "

\* C25: the form never calls insertRecord with a Title that is missing,
\* empty or only blanks: a submit either stops at the validation, with no
\* call and loading back to false, or sends a record whose Title is not
\* blank, whatever the fields and the custom fields hold.
C25_TitleNeverBlank ==
  /\ ui.awaiting => TitleGiven(ui.sent)
  /\ ui.alert = "validation" => ~ui.awaiting /\ ~ui.loading

\* What holds: a submit calls insertRecord only when the Title typed into
\* the form is not blank, and stops otherwise.
ValidatesTypedTitle ==
  /\ [][~ui.awaiting /\ ui'.awaiting => TitleGiven(ui.formData)]_vars
  /\ [][ui'.alert = "validation" /\ ui.alert # "validation" => ~TitleGiven(ui.formData) /\ ~ui'.awaiting /\ ~ui'.loading]_vars
  /\ [][~ui.awaiting /\ ui'.awaiting /\ ~TitleGiven(ui'.sent) =>
          \E i \in 1..Len(ui.customFields) : ui.customFields[i].name = "Title"]_vars

\* a record with a blank Title is on its way: the custom field named Title
\* replaced the one that passed the validation
BlankTitleSent ==
  /\ ui.awaiting
  /\ ui.formData = ("Title" :> <<"a">>)
  /\ ui.customFields = << [name |-> "Title", value |-> <<" ">>] >>
  /\ ui.sent = ("Title" :> <<" ">>)

-----------------------------------------------------------------------------
(* RecordView (src/components/RecordView.tsx) on its own: the hooks and    *)
(* the handlers of the component, each handler called in every state of    *)
(* the hooks.  updateRecord and deleteRecord are taken by their outcome.   *)

\* records the view is given: a list item, directory users as the App maps
\* them, and Employees records that carry a mail address
MailOnly == [Id |-> "u2", Title |-> "John Roe", Mail |-> "john@x.org"]
MailAndCard == [Id |-> "8", Title |-> "John Roe", Mail |-> "john@x.org", AccessCardNo |-> "AC-9"]
MailAndAsset == [Id |-> "6", Title |-> "John Roe", Mail |-> "john@x.org", AssetId |-> "A-1"]
NoMail == [Id |-> "5", Title |-> "John Roe", Mail |-> "", UserPrincipalName |-> ""]
ViewRecords == {AssetRecord, EmployeeItem, DirectoryUser, MailOnly, MailAndCard, MailAndAsset, NoMail}

\* the fields the view lets the user edit, and what is typed
EditableFields == {"Title", "Mail"}
Typed == {"", "x"}
NoEdits == [k \in {} |-> ""]

ViewInitUi(listName, record, isEditing) ==
  [ view |-> "View",
    listName |-> listName,
    record |-> record,
    isEditing |-> isEditing,
    editedFields |-> NoEdits,
    loading |-> FALSE,
    alert |-> "none",       \* the Alert on display
    awaiting |-> "none",    \* the service call a handler awaits
    sent |-> NoEdits,       \* the fields of the updateRecord call awaited
    handled |-> "none",     \* the handler called last
    dropped |-> NoEdits ]   \* the edits the handler called last found

ViewInit ==
  /\ \E w \in {x \in Worlds : x.screen = "lists" /\ x.clientId = "client-1"} :
       /\ clientId = w.clientId
       /\ tenantId = w.tenantId
       /\ srvLists = w.srvLists
       /\ screen = w.screen
  /\ accessToken = "tokA"
  /\ siteId = Null
  /\ listIdCache = EmptyMap
  /\ authPc = "idle"
  /\ authResult = NoAuthEvent
  /\ op = NoOp
  /\ pc = "idle"
  /\ stack = <<>>
  /\ arg = "none"
  /\ ret = "none"
  /\ loc = LocInit
  /\ net = {}
  /\ result = Pending
  /\ hist = HistInit
  /\ \E listName \in {"Employees", "Assets"}, record \in ViewRecords, isEditing \in BOOLEAN :
       ui = ViewInitUi(listName, record, isEditing)

ViewOpen == ui.alert = "none"

\* handleFieldChange, from the inputs shown while editing
HandleFieldChange(fieldName, value) ==
  /\ ViewOpen
  /\ ui.isEditing
  /\ ui' = [ui EXCEPT !.editedFields = (fieldName :> value) @@ @, !.handled = "handleFieldChange", !.dropped = NoEdits]
  /\ UNCHANGED listFixed

\* the Cancel button, lines 227-230
CancelEdit ==
  /\ ViewOpen
  /\ "cancel" \in DetailControls(ui.isEditing)
  /\ ~ui.loading
  /\ ui' = [ui EXCEPT !.isEditing = FALSE, !.editedFields = NoEdits, !.handled = "cancel", !.dropped = ui.editedFields]
  /\ UNCHANGED listFixed

\* handleSave up to its return or its await
HandleSave ==
  /\ ViewOpen
  /\ ~ui.loading
  /\ LET u == [ui EXCEPT !.handled = "handleSave", !.dropped = ui.editedFields] IN
     ui' = IF IsOrganizationUser(ui.listName, ui.record)
           THEN [u EXCEPT !.alert = "cannotEdit", !.isEditing = FALSE, !.editedFields = NoEdits]
           ELSE IF DOMAIN ui.editedFields = {}
           THEN [u EXCEPT !.alert = "noChanges", !.isEditing = FALSE, !.loading = FALSE]
           ELSE [u EXCEPT !.loading = TRUE, !.awaiting = "updateRecord", !.sent = ui.editedFields]
  /\ UNCHANGED listFixed

\* handleSave after its await, updateRecord resolved
UpdateResolved ==
  /\ ui.awaiting = "updateRecord"
  /\ ui' = [ui EXCEPT !.awaiting = "none", !.sent = NoEdits, !.alert = "updated",
                      !.isEditing = FALSE, !.editedFields = NoEdits, !.loading = FALSE]
  /\ UNCHANGED listFixed

\* handleSave after its await, updateRecord rejected
UpdateRejected ==
  /\ ui.awaiting = "updateRecord"
  /\ ui' = [ui EXCEPT !.awaiting = "none", !.sent = NoEdits, !.alert = "error", !.loading = FALSE]
  /\ UNCHANGED listFixed

\* handleDelete: the refusal, or the confirmation alert
HandleDelete ==
  /\ ViewOpen
  /\ ui.awaiting = "none"
  /\ ui' = [ui EXCEPT !.alert = IF IsOrganizationUser(ui.listName, ui.record) THEN "cannotDelete" ELSE "confirmDelete",
                      !.handled = "handleDelete", !.dropped = NoEdits]
  /\ UNCHANGED listFixed

\* the alert's Delete button, up to its await
ConfirmDelete ==
  /\ ui.alert = "confirmDelete"
  /\ ui' = [ui EXCEPT !.alert = "none", !.loading = TRUE, !.awaiting = "deleteRecord"]
  /\ UNCHANGED listFixed

\* the alert's Delete button after its await: deleteRecord resolved or rejected
DeleteSettled(ok) ==
  /\ ui.awaiting = "deleteRecord"
  /\ ui' = [ui EXCEPT !.awaiting = "none", !.alert = IF ok THEN "deleted" ELSE "error", !.loading = FALSE]
  /\ UNCHANGED listFixed

\* Cancel of the confirmation, OK of the others
DismissViewAlert ==
  /\ ui.alert # "none"
  /\ ui' = [ui EXCEPT !.alert = "none"]
  /\ UNCHANGED listFixed

ViewNext ==
  \/ \E fieldName \in EditableFields, value \in Typed : HandleFieldChange(fieldName, value)
  \/ CancelEdit
  \/ HandleSave
  \/ UpdateResolved
  \/ UpdateRejected
  \/ HandleDelete
  \/ ConfirmDelete
  \/ \E ok \in BOOLEAN : DeleteSettled(ok)
  \/ DismissViewAlert

SpecView == ViewInit /\ [][ViewNext]_vars

\* the classification in the claim's words
OrganizationUser ==
  /\ ui.listName = "Employees"
  /\ \/ "UserPrincipalName" \in DOMAIN ui.record /\ ui.record["UserPrincipalName"] # ""
     \/ /\ "Mail" \in DOMAIN ui.record /\ ui.record["Mail"] # ""
        /\ DOMAIN ui.record \cap {"AccessCardNo", "AssetId"} = {}

\* C26: for an organization user the view calls neither updateRecord nor
\* deleteRecord: save leaves the editing mode and drops the edits, delete
\* returns before it asks for the confirmation.
C26_OrganizationUserReadOnly ==
  /\ [](OrganizationUser => ui.awaiting = "none" /\ ui.alert # "confirmDelete")
  /\ [][OrganizationUser /\ ui.alert = "none" /\ ui'.alert # "none" /\ ui'.handled = "handleSave" =>
          /\ ~ui'.isEditing
          /\ ui'.editedFields = NoEdits
          /\ ui'.alert = "cannotEdit"
          /\ ~ui'.loading]_vars
  /\ [][OrganizationUser /\ ui.alert = "none" /\ ui'.alert # "none" /\ ui'.handled = "handleDelete" =>
          /\ ui'.alert = "cannotDelete"
          /\ ui'.awaiting = "none"
          /\ ui'.isEditing = ui.isEditing
          /\ ui'.editedFields = ui.editedFields]_vars

\* save was called on a directory user with an edit: the edit is gone
C26_Witness ==
  /\ ui.listName = "Employees"
  /\ ui.record = MailOnly
  /\ ui.handled = "handleSave"
  /\ ui.dropped = ("Title" :> "x")
  /\ ui.editedFields = NoEdits
  /\ ~ui.isEditing
  /\ ui.alert = "cannotEdit"


============================================================================
